---- MODULE Spec2Model ----
(***************************************************************************)
(* Pack storage of rspack_storage: PackStorage (storage.rs), PackScope and *)
(* save_scope (scope.rs), Pack (pack.rs).                                  *)
(*                                                                         *)
(* The store keeps two maps behind two mutexes: `scopes` (the registry of  *)
(* lazily loaded PackScope objects) and `socpe_updates` (the staged        *)
(* set/remove calls).  The disk under options.location is part of the      *)
(* state: one meta file and some pack files per scope.                     *)
(***************************************************************************)
EXTENDS Integers, Sequences, FiniteSets, Bags, TLC

VARIABLES
  options,        \* PackStorage.options of the running process
  scopes,         \* PackStorage.scopes: scope name -> PackScope
  socpe_updates,  \* PackStorage.socpe_updates: scope name -> (key -> Option<value>)
  disk,           \* files under options.location: scope name -> [meta, files]
  now,            \* SystemTime::now() in seconds since UNIX_EPOCH
  pc,             \* position of every thread inside idle()
  data,           \* idle()'s local `data` (the staged updates it took)
  new_scopes,     \* idle()'s local `new_scopes` (the result of save)
  committed,      \* what get_all returned for every scope when idle() took the updates
  ops,            \* number of calls of the Storage trait made so far
  env,            \* number of environment steps made so far
  poisoned,       \* whether the `scopes` mutex is poisoned (a thread panicked holding it)
  idle_result,    \* what every thread's last idle() call returned
  writes,         \* set/remove calls made so far
  last_write,     \* the most recent set/remove call since the updates were last taken
  expiry,         \* inputs and outcome of the expiry step of validate (SpecExpiry)
  pack_io,        \* one Pack, the bucket directory it is written to and read from (SpecPack)
  pack_scope,     \* one PackScope object, its directory and its last call (SpecScope)
  snapshot,       \* one Snapshot, its storage and the watched files (SpecSnapshot)
  locks           \* who holds the two mutexes and where every thread is in its call (SpecLocks)

vars == <<options, scopes, socpe_updates, disk, now, pc, data, new_scopes,
          committed, ops, writes, env, poisoned, idle_result, last_write, expiry,
          pack_io, pack_scope, snapshot, locks>>

(* the variables of PackStorage and its environment *)
storage_vars == <<options, scopes, socpe_updates, disk, now, pc, data, new_scopes,
                  committed, ops, writes, env, poisoned, idle_result, last_write>>

----------------------------------------------------------------------------
(* Bounds *)

MaxOps == 4          \* calls of the Storage trait and environment steps in one behaviour
MaxWrites == 2       \* set and remove calls in one behaviour
MaxEnv == 1          \* environment steps (clock, files, restart) among them
MaxTime == 2         \* the clock stops at MaxTime
MaxBuckets == 2      \* options.buckets ranges over 1..MaxBuckets
MaxPackSize == 2     \* options.max_pack_size ranges over 1..MaxPackSize
MaxExpires == 1      \* options.expires of the storage specification
WordBits == 2        \* width of the unsigned words of the expiry arithmetic (u64 scaled down)

Scopes == {"s1", "s2"}
Threads == {"t1", "t2"}
IdleCallers == {"t1"}                \* the threads that call idle() in Spec
KeyList == <<"k1", "k2">>
Keys == {KeyList[i] : i \in 1..Len(KeyList)}
Values == {"v1", "v2"}

(* the keys and values the callers write under each scope *)
KeysOf(scope) == IF scope = "s1" THEN Keys ELSE {"k1"}
ValuesOf(scope) == IF scope = "s1" THEN Values ELSE {"v1"}

Word == 2 ^ WordBits                 \* u64 values are 0 .. Word-1
Words == 0..(Word - 1)

----------------------------------------------------------------------------
(* Option<Vec<u8>> *)

None == [some |-> FALSE, v |-> ""]
Some(v) == [some |-> TRUE, v |-> v]

(* HashMap::default() *)
EmptyMap == <<>>

(* HashMap::insert *)
MapInsert(m, k, v) == [x \in DOMAIN m \cup {k} |-> IF x = k THEN v ELSE m[x]]

(* HashMap::entry(k).or_default() / or_insert_with(d) *)
MapOrInsert(m, k, d) == IF k \in DOMAIN m THEN m ELSE MapInsert(m, k, d)

RECURSIVE SumOver(_, _)
SumOver(S, f) ==
  IF S = {} THEN 0
  ELSE LET x == CHOOSE y \in S : TRUE IN f[x] + SumOver(S \ {x}, f)

SeqRange(q) == {q[i] : i \in 1..Len(q)}

----------------------------------------------------------------------------
(* Pack files and the pack integrity hash (pack.rs) *)

(* A pack file on disk: the keys of its two header lines, its value lines,  *)
(* and the size and mtime_nsec its metadata reports.                        *)
PackFile(keys, vals, size, mtime) == [keys |-> keys, vals |-> vals, size |-> size, mtime |-> mtime]

(* Bytes of the file Pack::write lays out: key-length line, key blob line,  *)
(* one line per value.                                                      *)
RECURSIVE ByteLen(_)
ByteLen(q) == IF q = <<>> THEN 0 ELSE Len(Head(q)) + ByteLen(Tail(q))

EncodedSize(keys, vals) ==
  LET n == Len(keys)
      metaLine == (IF n = 0 THEN 0 ELSE n + (n - 1)) + 1   \* one decimal digit per key length
  IN  metaLine + ByteLen(keys) + 1 + ByteLen(vals) + Len(vals)

(* FxHasher over keys, keys.len(), size and mtime, rendered as 16 hex      *)
(* digits: an injective rendering of what is hashed.                       *)
PackHash(keys, size, mtime) == <<keys, Len(keys), size, mtime>>

(* Pack::new *)
PackNew(path) ==
  [path |-> path,
   keys |-> [st |-> "Pending", v |-> <<>>],
   contents |-> [st |-> "Pending", v |-> <<>>]]

(* Pack::read_keys: Err when the file does not exist *)
read_keys(files, path) ==
  IF path \notin DOMAIN files
  THEN [st |-> "Failed", v |-> <<>>]
  ELSE [st |-> "Value", v |-> files[path].keys]

(* Pack::read_contents: Err when the file does not exist or has fewer      *)
(* value lines than keys; pairs the given keys with the lines positionally *)
read_contents(files, path, keys) ==
  IF path \notin DOMAIN files \/ Len(files[path].vals) < Len(keys)
  THEN [st |-> "Failed", v |-> <<>>]
  ELSE [st |-> "Value", v |-> [i \in 1..Len(keys) |-> <<keys[i], files[path].vals[i]>>]]

(* Pack::validate: Err when the file cannot be opened *)
PackValidate(files, path, keys, hash) ==
  IF path \notin DOMAIN files
  THEN [ok |-> FALSE, v |-> FALSE]
  ELSE [ok |-> TRUE, v |-> (hash = PackHash(keys, files[path].size, files[path].mtime))]

----------------------------------------------------------------------------
(* ScopeMeta and the files of one scope *)

PackFileMeta(name, hash) == [name |-> name, hash |-> hash]

NullMeta == [buckets |-> 0, max_pack_size |-> 0, last_modified |-> 0, packs |-> <<>>]

(* ScopeMeta::new(options): the options' buckets and max_pack_size, stamped *)
(* with the current time, one empty pack list per bucket.                   *)
ScopeMetaNew(opts, t) ==
  [buckets |-> opts.buckets, max_pack_size |-> opts.max_pack_size,
   last_modified |-> t, packs |-> [b \in 1..opts.buckets |-> <<>>]]

NoScopeDir == [meta |-> [exists |-> FALSE, v |-> NullMeta], files |-> EmptyMap]

(* ScopeMeta::read(<scope>): Err when the meta file cannot be read *)
ScopeMetaRead(dir) ==
  IF dir.meta.exists THEN [st |-> "Value", v |-> dir.meta.v]
  ELSE [st |-> "Failed", v |-> NullMeta]

----------------------------------------------------------------------------
(* PackScope (scope.rs) *)

PackScopeNew ==
  [meta |-> [st |-> "Pending", v |-> NullMeta],
   packs |-> [st |-> "Pending", v |-> EmptyMap]]

(* The descriptors of a meta in the order ensure_meta visits them:          *)
(* bucket 0 .. buckets-1, each bucket's list front to back.                 *)
Descriptors(meta) ==
  UNION {{<<b, i>> : i \in 1..Len(meta.packs[b])} : b \in 1..meta.buckets}

Later(d, e) == d[1] > e[1] \/ (d[1] = e[1] /\ d[2] > e[2])

(* collect::<HashMap<String, Pack>>() of (hash, Pack::new(bucket_dir/name)): *)
(* of two descriptors with one hash the later one stays.                     *)
PacksOfMeta(meta) ==
  LET ds == Descriptors(meta)
      hashOf(d) == meta.packs[d[1]][d[2]].hash
      hs == {hashOf(d) : d \in ds}
      lastOf(h) == CHOOSE d \in ds : hashOf(d) = h /\ \A e \in ds : hashOf(e) = h => ~Later(e, d)
  IN  [h \in hs |-> PackNew(<<lastOf(h)[1] - 1, meta.packs[lastOf(h)[1]][lastOf(h)[2]].name>>)]

(* ensure_meta that forgets the packs slot when the meta cannot be read *)
ensure_meta_packs_left_pending(scope, dir) ==
  LET meta == IF scope.meta.st = "Pending" THEN ScopeMetaRead(dir) ELSE scope.meta
      sc == [scope EXCEPT !.meta = meta]
  IN  IF meta.st = "Failed"
      THEN [res |-> "err", scope |-> sc]
      ELSE CASE sc.packs.st = "Pending" ->
                  IF Len(meta.v.packs) < meta.v.buckets
                  THEN [res |-> "panic", scope |-> sc]
                  ELSE [res |-> "ok",
                        scope |-> [sc EXCEPT !.packs = [st |-> "Value", v |-> PacksOfMeta(meta.v)]]]
             [] sc.packs.st = "Failed" -> [res |-> "err", scope |-> sc]
             [] OTHER -> [res |-> "ok", scope |-> sc]

(* PackScope::ensure_meta *)
ensure_meta(scope, dir) ==
  LET meta == IF scope.meta.st = "Pending" THEN ScopeMetaRead(dir) ELSE scope.meta
      sc == [scope EXCEPT !.meta = meta]
  IN  IF meta.st = "Failed"
      THEN [res |-> "err", scope |-> [sc EXCEPT !.packs = [st |-> "Failed", v |-> EmptyMap]]]
      ELSE CASE sc.packs.st = "Pending" ->
                  IF Len(meta.v.packs) < meta.v.buckets
                  THEN [res |-> "panic", scope |-> sc]       \* expect("should have pack")
                  ELSE [res |-> "ok",
                        scope |-> [sc EXCEPT !.packs = [st |-> "Value", v |-> PacksOfMeta(meta.v)]]]
             [] sc.packs.st = "Failed" -> [res |-> "err", scope |-> sc]
             [] OTHER -> [res |-> "ok", scope |-> sc]

(* PackScope::ensure_pack_keys *)
ensure_pack_keys(scope, dir) ==
  IF scope.packs.st # "Value"
  THEN [res |-> "err", scope |-> scope]
  ELSE LET packs == scope.packs.v
           load_pack_key(h) ==
             IF packs[h].keys.st = "Pending"
             THEN [packs[h] EXCEPT !.keys = read_keys(dir.files, packs[h].path)]
             ELSE packs[h]
       IN  [res |-> "ok",
            scope |-> [scope EXCEPT !.packs.v = [h \in DOMAIN packs |-> load_pack_key(h)]]]

(* PackScope::validate_packs *)
validate_packs(scope, dir) ==
  IF scope.packs.st # "Value"
  THEN [res |-> "err", v |-> FALSE]
  ELSE LET packs == scope.packs.v
           tasks == {h \in DOMAIN packs : packs[h].keys.st = "Value"}
           validate_pack(h) ==
             LET r == PackValidate(dir.files, packs[h].path, packs[h].keys.v, h)
             IN  IF r.ok THEN r.v ELSE FALSE
       IN  [res |-> "ok", v |-> \A h \in tasks : validate_pack(h)]

(* PackScope::ensure_pack_contents *)
ensure_pack_contents(scope, dir) ==
  IF scope.packs.st # "Value"
  THEN [res |-> "err", scope |-> scope]
  ELSE LET packs == scope.packs.v
           load_pack_content(h) ==
             IF packs[h].contents.st = "Pending" /\ packs[h].keys.st = "Value"
             THEN [packs[h] EXCEPT
                     !.contents = read_contents(dir.files, packs[h].path, packs[h].keys.v)]
             ELSE packs[h]
       IN  [res |-> "ok",
            scope |-> [scope EXCEPT !.packs.v = [h \in DOMAIN packs |-> load_pack_content(h)]]]

(* The expiry step of PackScope::validate, on unsigned words:               *)
(*   if current_time - meta.last_modified > options.expires { Err }         *)
(* The subtraction overflows when last_modified > current_time: the build   *)
(* either panics (overflow checks on) or wraps around (overflow checks off) *)
OverflowOutcomes == {"panic", "wrap"}

expiry_step(current_time, last_modified, expires, ov) ==
  IF current_time < last_modified /\ ov = "panic"
  THEN "panic"
  ELSE IF (current_time - last_modified) % Word > expires THEN "expired" ELSE "pass"

(* PackScope::validate *)
validate(scope, dir, opts, t, ov) ==
  LET em == ensure_meta(scope, dir)
      meta == em.scope.meta.v
  IN  IF em.res # "ok"
      THEN [res |-> IF em.res = "panic" THEN "panic" ELSE "err_meta", scope |-> em.scope]
      ELSE IF meta.buckets # opts.buckets \/ meta.max_pack_size # opts.max_pack_size
      THEN [res |-> "err_options", scope |-> em.scope]
      ELSE LET e == expiry_step(t, meta.last_modified, opts.expires, ov)
           IN  IF e = "panic" THEN [res |-> "panic", scope |-> em.scope]
               ELSE IF e = "expired" THEN [res |-> "err_expired", scope |-> em.scope]
               ELSE LET ek == ensure_pack_keys(em.scope, dir)
                        vp == validate_packs(ek.scope, dir)
                    IN  IF ek.res # "ok" \/ vp.res # "ok"
                        THEN [res |-> "err_packs", scope |-> ek.scope]
                        ELSE [res |-> IF vp.v THEN "true" ELSE "false", scope |-> ek.scope]

(* the contents of every pack extended into the result twice *)
EntriesOf_extended_twice(packs) ==
  LET hs == {h \in DOMAIN packs : packs[h].contents.st = "Value"}
      es == UNION {SeqRange(packs[h].contents.v) : h \in hs}
      count(e) == SumOver(hs, [h \in hs |->
                    Cardinality({i \in 1..Len(packs[h].contents.v) : packs[h].contents.v[i] = e})])
  IN  [e \in es |-> 2 * count(e)]

(* The flattened contents of the packs whose contents slot is Value, as a   *)
(* bag of (key, value) pairs (the order of a HashMap iteration is not kept) *)
EntriesOf(packs) ==
  LET hs == {h \in DOMAIN packs : packs[h].contents.st = "Value"}
      es == UNION {SeqRange(packs[h].contents.v) : h \in hs}
      count(e) == SumOver(hs, [h \in hs |->
                    Cardinality({i \in 1..Len(packs[h].contents.v) : packs[h].contents.v[i] = e})])
  IN  [e \in es |-> count(e)]

(* PackScope::get_contents *)
get_contents(scope, dir) ==
  LET em == ensure_meta(scope, dir)
      ek == ensure_pack_keys(em.scope, dir)
      ec == ensure_pack_contents(ek.scope, dir)
  IN  IF em.res # "ok" THEN [res |-> "err_meta", entries |-> EmptyBag, scope |-> em.scope]
      ELSE IF ek.res # "ok" THEN [res |-> "err_packs", entries |-> EmptyBag, scope |-> ek.scope]
      ELSE IF ec.res # "ok" THEN [res |-> "err_packs", entries |-> EmptyBag, scope |-> ec.scope]
      ELSE [res |-> "ok", entries |-> EntriesOf(ec.scope.packs.v), scope |-> ec.scope]

----------------------------------------------------------------------------
(* save_scope (scope.rs) *)

(* FxHasher over the key bytes: a fixed value per key *)
KeyHash(key) == CHOOSE i \in 1..Len(KeyList) : KeyList[i] = key

(* get_key_bucket_id *)
get_key_bucket_id(key, total) == KeyHash(key) % total

(* the old pack metas of one bucket: scope_old_pack_metas.get(bucket) or vec![] *)
BucketOldPackMetas(old_pack_metas, bucket) ==
  IF bucket + 1 <= Len(old_pack_metas) THEN old_pack_metas[bucket + 1] ELSE <<>>

(* key -> hash of the old pack of the bucket that holds it (keys slot Value) *)
KeyToPackHash(bucket_metas, old_packs) ==
  LET hs == {bucket_metas[i].hash : i \in 1..Len(bucket_metas)}
      holds(h, k) == old_packs[h].keys.st = "Value" /\ k \in SeqRange(old_packs[h].keys.v)
      ks == {k \in Keys : \E h \in hs : holds(h, k)}
  IN  [k \in ks |-> CHOOSE h \in hs : holds(h, k)]

(* the classification of the dirty keys of one bucket *)
InsertKeys(dirty_keys, dataMap) == {k \in dirty_keys : dataMap[k].some}

RemovedPacks(dirty_keys, key_to_pack_hash) ==
  {key_to_pack_hash[k] : k \in dirty_keys \cap DOMAIN key_to_pack_hash}

RemovedKeys(dirty_keys, dataMap, key_to_pack_hash) ==
  {k \in dirty_keys \cap DOMAIN key_to_pack_hash : ~dataMap[k].some}

(* `res`: the entries pulled out of the removed packs, without the removed  *)
(* and re-inserted keys, plus the inserts                                   *)
LiveEntries(dirty_keys, dataMap, key_to_pack_hash, old_packs) ==
  LET removed == RemovedPacks(dirty_keys, key_to_pack_hash)
      pulled == UNION {SeqRange(old_packs[h].contents.v) :
                         h \in {x \in removed : old_packs[x].contents.st = "Value"}}
      kept == {e \in pulled : e[1] \notin RemovedKeys(dirty_keys, dataMap, key_to_pack_hash)
                              /\ e[1] \notin InsertKeys(dirty_keys, dataMap)}
  IN  kept \cup {<<k, dataMap[k].v>> : k \in InsertKeys(dirty_keys, dataMap)}

(* `new_packs`: the packs built for a dirty bucket (vec![] in the source)   *)
NewPacksOf(live) == <<>>

(* save_scope: "panic" when an expect fails or an index is out of bounds    *)
save_scope(scope, dataMap, opts, t) ==
  LET new_scope_meta0 == [ScopeMetaNew(opts, t) EXCEPT !.packs = <<>>]   \* Vec::with_capacity
      old_pack_metas == IF scope.meta.st = "Value" THEN scope.meta.v.packs ELSE <<>>
      old_packs == IF scope.packs.st = "Value" THEN scope.packs.v ELSE EmptyMap
      dirty_buckets == {get_key_bucket_id(k, opts.buckets) : k \in DOMAIN dataMap}
      dirty_keys(b) == {k \in DOMAIN dataMap : get_key_bucket_id(k, opts.buckets) = b}
      metas(b) == BucketOldPackMetas(old_pack_metas, b)
      missing(b) == \E i \in 1..Len(metas(b)) : metas(b)[i].hash \notin DOMAIN old_packs
      index(b) == KeyToPackHash(metas(b), old_packs)
      removed(b) == RemovedPacks(dirty_keys(b), index(b))
      live(b) == LiveEntries(dirty_keys(b), dataMap, index(b), old_packs)
      remain(b) == SelectSeq(metas(b), LAMBDA m : m.hash \notin removed(b))
      pushed(b) == remain(b) \o NewPacksOf(live(b))
      out_of_bounds(b) == pushed(b) # <<>> /\ b + 1 > Len(new_scope_meta0.packs)
      new_meta == [new_scope_meta0 EXCEPT !.packs =
                     [i \in 1..Len(@) |-> IF (i - 1) \in dirty_buckets THEN @[i] \o pushed(i - 1) ELSE @[i]]]
      kept_hashes == UNION {{remain(b)[i].hash : i \in 1..Len(remain(b))} : b \in dirty_buckets}
      new_packs == [h \in kept_hashes |-> old_packs[h]]
  IN  IF \E b \in dirty_buckets : missing(b) \/ out_of_bounds(b)
      THEN [res |-> "panic", scope |-> PackScopeNew]
      ELSE [res |-> "ok",
            scope |-> [meta |-> [st |-> "Value", v |-> new_meta],
                       packs |-> [st |-> "Value", v |-> new_packs]]]

----------------------------------------------------------------------------
(* PackStorage (storage.rs) *)

(* set with entry(key).or_insert(Some(value)): a staged entry is kept *)
set_keeps_first(updates, scope, key, value) ==
  LET inner == MapOrInsert(updates, scope, EmptyMap)
  IN  [inner EXCEPT ![scope] = MapOrInsert(@, key, Some(value))]

(* set: socpe_updates[scope][key] = Some(value) *)
set(updates, scope, key, value) ==
  LET inner == MapOrInsert(updates, scope, EmptyMap)
  IN  [inner EXCEPT ![scope] = MapInsert(@, key, Some(value))]

(* remove: socpe_updates[scope][key] = None *)
remove(updates, scope, key) ==
  LET inner == MapOrInsert(updates, scope, EmptyMap)
  IN  [inner EXCEPT ![scope] = MapInsert(@, key, None)]

(* get_all under the scopes lock: the result and the scope it leaves in the *)
(* registry; lock().unwrap() panics on a poisoned mutex                     *)
get_all(self_scopes, self_options, dir, t, is_poisoned, name, ov) ==
  LET scope == MapOrInsert(self_scopes, name, PackScopeNew)[name]
      is_valid == validate(scope, dir, self_options, t, ov)
  IN  IF is_poisoned
      THEN [kind |-> "panic", entries |-> EmptyBag, scope |-> scope]
      ELSE IF is_valid.res = "true"
      THEN LET c == get_contents(is_valid.scope, dir)
           IN  [kind |-> c.res, entries |-> c.entries, scope |-> c.scope]
      ELSE IF is_valid.res = "false"
      THEN [kind |-> "inconsistent", entries |-> EmptyBag, scope |-> is_valid.scope]
      ELSE [kind |-> is_valid.res, entries |-> EmptyBag, scope |-> is_valid.scope]

(* save: save_scope for every scope of `data`; any failure fails the whole  *)
SaveAll(taken, dataMaps, opts, t) ==
  [name \in DOMAIN dataMaps |-> save_scope(taken[name], dataMaps[name], opts, t)]

(* What `save` hands back to idle.  It computes the saved scopes and then   *)
(* returns Ok(()), where the signature promises the map of saved scopes:    *)
(* either the saved scopes reach the registry or nothing does.              *)
SaveReturns == {"collected", "unit"}

save(taken, dataMaps, opts, t, ret) ==
  LET saved == SaveAll(taken, dataMaps, opts, t)
  IN  IF \E name \in DOMAIN saved : saved[name].res # "ok"
      THEN [res |-> "panic", scopes |-> EmptyMap]
      ELSE [res |-> "ok",
            scopes |-> IF ret = "collected"
                       THEN [name \in DOMAIN saved |-> saved[name].scope]
                       ELSE EmptyMap]

(* idle, lines 63-67: every scope of `data` gets an entry in the taken map  *)
WithDataScopes(taken, dataMaps) ==
  [name \in DOMAIN taken \cup DOMAIN dataMaps |->
     IF name \in DOMAIN taken THEN taken[name] ELSE PackScopeNew]

----------------------------------------------------------------------------
(* The state a previous run of the store left on disk *)

NameList == <<"p1", "p2">>

(* The packs of a committed scope, as the key lists of its packs *)
Layouts == { << <<"k1">>, <<"k2">> >>, << <<"k1", "k2">> >> }

(* every pack holds keys of one bucket *)
LayoutFits(layout, opts) ==
  \A i \in 1..Len(layout) : \A j \in 1..Len(layout[i]) :
     get_key_bucket_id(layout[i][j], opts.buckets) = get_key_bucket_id(layout[i][1], opts.buckets)

CommittedDir(opts, lm, layout) ==
  LET vals(i) == [j \in 1..Len(layout[i]) |-> "v1"]
      size(i) == EncodedSize(layout[i], vals(i))
      bucketOf(i) == get_key_bucket_id(layout[i][1], opts.buckets)
      pathOf(i) == <<bucketOf(i), NameList[i]>>
      metaOf(i) == PackFileMeta(NameList[i], PackHash(layout[i], size(i), lm))
      inBucket(b) == SelectSeq([i \in 1..Len(layout) |-> i], LAMBDA i : bucketOf(i) = b)
  IN  [meta |-> [exists |-> TRUE,
                 v |-> [buckets |-> opts.buckets, max_pack_size |-> opts.max_pack_size,
                        last_modified |-> lm,
                        packs |-> [b \in 1..opts.buckets |->
                                     [j \in 1..Len(inBucket(b - 1)) |-> metaOf(inBucket(b - 1)[j])]]]],
       files |-> [p \in {pathOf(i) : i \in 1..Len(layout)} |->
                    LET i == CHOOSE x \in 1..Len(layout) : pathOf(x) = p
                    IN  PackFile(layout[i], vals(i), size(i), lm)]]

OptionChoices ==
  [buckets : 1..MaxBuckets, max_pack_size : 1..MaxPackSize, expires : {MaxExpires}]

DirChoices(opts, lm) ==
  {NoScopeDir} \cup {CommittedDir(opts, lm, l) : l \in {x \in Layouts : LayoutFits(x, opts)}}

(* a previous run used the first scope only *)
InitDisks(opts, lm) ==
  {[s \in Scopes |-> IF s = "s1" THEN d ELSE NoScopeDir] : d \in DirChoices(opts, lm)}

----------------------------------------------------------------------------
(* State *)

NoView == [kind |-> "", entries |-> EmptyBag]

NoWrite == [op |-> "none", scope |-> "", key |-> "", value |-> None, replaced |-> FALSE]

NoExpiry == [current_time |-> 0, last_modified |-> 0, expires |-> 0, ov |-> "wrap", out |-> "none"]

(* the variables of the other specifications, at rest *)
NoPackIo == [call |-> "none"]

NoPackScope == [call |-> "none"]

NoSnapshot == [call |-> "none"]

NoLocks == [call |-> "none"]

(* what get_all(name) would return now *)
ViewOf(self_scopes, self_options, dir, t, is_poisoned, name) ==
  LET r == get_all(self_scopes, self_options, dir, t, is_poisoned, name, "wrap")
  IN  [kind |-> r.kind, entries |-> r.entries]

View(name) == ViewOf(scopes, options, disk[name], now, poisoned, name)

(* what get_all(name) would return after the step *)
ViewAfter(name) == ViewOf(scopes', options', disk'[name], now', poisoned', name)

(* PackStorage::new(options) over the disk of a previous run *)
Init ==
  /\ options \in {o \in OptionChoices : o.max_pack_size = MaxPackSize}
  /\ disk \in InitDisks(options, 0)
  /\ scopes = EmptyMap
  /\ socpe_updates = EmptyMap
  /\ now = MaxExpires
  /\ pc = [t \in Threads |-> "ready"]
  /\ data = [t \in Threads |-> EmptyMap]
  /\ new_scopes = [t \in Threads |-> EmptyMap]
  /\ committed = [t \in Threads |-> [s \in Scopes |-> NoView]]
  /\ ops = 0
  /\ env = 0
  /\ poisoned = FALSE
  /\ idle_result = [t \in Threads |-> ""]
  /\ writes = 0
  /\ last_write = NoWrite
  /\ expiry = NoExpiry
  /\ locks = NoLocks
  /\ pack_io = NoPackIo
  /\ pack_scope = NoPackScope
  /\ snapshot = NoSnapshot

(* whether the call replaces a different staged entry of the same key *)
Replaces(updates, scope, key, value) ==
  scope \in DOMAIN updates /\ key \in DOMAIN updates[scope] /\ updates[scope][key] # value


----------------------------------------------------------------------------
(* Calls of the Storage trait *)

(* a set that also writes the value into the loaded contents of the scope *)
WriteThrough(sc, key, value) ==
  IF sc.packs.st # "Value" THEN sc
  ELSE LET packs == sc.packs.v
           written(h) ==
             IF packs[h].contents.st # "Value" THEN packs[h]
             ELSE LET c == packs[h].contents.v
                  IN  [packs[h] EXCEPT !.contents.v =
                         [i \in 1..Len(c) |-> IF c[i][1] = key THEN <<key, value>> ELSE c[i]]]
       IN  [sc EXCEPT !.packs.v = [h \in DOMAIN packs |-> written(h)]]

SetWriteThrough(scope, key, value) ==
  /\ ops + env < MaxOps
  /\ writes < MaxWrites
  /\ writes' = writes + 1
  /\ socpe_updates' = set(socpe_updates, scope, key, value)
  /\ scopes' = [n \in DOMAIN scopes |->
                  IF n = scope THEN WriteThrough(scopes[n], key, value) ELSE scopes[n]]
  /\ ops' = ops + 1
  /\ last_write' = [op |-> "set", scope |-> scope, key |-> key, value |-> Some(value),
                    replaced |-> Replaces(socpe_updates, scope, key, Some(value))]
  /\ UNCHANGED <<options, disk, now, pc, data, new_scopes, committed, env, poisoned,
                 idle_result, expiry, locks, pack_io, pack_scope,
                 snapshot>>

Set(scope, key, value) ==
  /\ ops + env < MaxOps
  /\ ops' = ops + 1
  /\ UNCHANGED <<options, scopes, disk, now, pc, data, new_scopes, committed, env, poisoned,
                 idle_result, expiry, locks, pack_io, pack_scope,
                 snapshot>>
  /\ writes < MaxWrites
  /\ writes' = writes + 1
  /\ socpe_updates' = set(socpe_updates, scope, key, value)
  /\ last_write' = [op |-> "set", scope |-> scope, key |-> key, value |-> Some(value),
                    replaced |-> Replaces(socpe_updates, scope, key, Some(value))]

Remove(scope, key) ==
  /\ ops + env < MaxOps
  /\ ops' = ops + 1
  /\ UNCHANGED <<options, scopes, disk, now, pc, data, new_scopes, committed, env, poisoned,
                 idle_result, expiry, locks, pack_io, pack_scope,
                 snapshot>>
  /\ writes < MaxWrites
  /\ writes' = writes + 1
  /\ socpe_updates' = remove(socpe_updates, scope, key)
  /\ last_write' = [op |-> "remove", scope |-> scope, key |-> key, value |-> None,
                    replaced |-> Replaces(socpe_updates, scope, key, None)]

(* get_all holds the scopes lock from the lookup to the return; a panic    *)
(* inside it poisons the mutex                                             *)
GetAll(name) ==
  /\ ops + env < MaxOps
  /\ ops' = ops + 1
  /\ \E ov \in OverflowOutcomes :
       LET r == get_all(scopes, options, disk[name], now, poisoned, name, ov)
       IN  /\ scopes' = IF poisoned THEN scopes ELSE MapInsert(scopes, name, r.scope)
           /\ poisoned' = (r.kind = "panic")
  /\ UNCHANGED <<options, socpe_updates, disk, now, pc, data, new_scopes, committed, env,
                 idle_result, writes, last_write, expiry, locks, pack_io, pack_scope,
                 snapshot>>

(* idle, line 61: take the staged updates under the updates lock *)
IdleTakeUpdates(t) ==
  /\ ops + env < MaxOps
  /\ pc[t] = "ready"
  /\ ops' = ops + 1
  /\ data' = [data EXCEPT ![t] = socpe_updates]
  /\ socpe_updates' = EmptyMap
  /\ committed' = [committed EXCEPT ![t] = [s \in Scopes |-> View(s)]]
  /\ idle_result' = [idle_result EXCEPT ![t] = ""]
  /\ last_write' = NoWrite
  /\ pc' = [pc EXCEPT ![t] = "took_updates"]
  /\ UNCHANGED <<options, scopes, disk, now, new_scopes, env, poisoned, writes, expiry, locks, pack_io, pack_scope,
                 snapshot>>

(* the locals of idle() die when it returns *)
IdleReturns(t, result) ==
  /\ pc' = [pc EXCEPT ![t] = "ready"]
  /\ idle_result' = [idle_result EXCEPT ![t] = result]
  /\ data' = [data EXCEPT ![t] = EmptyMap]
  /\ new_scopes' = [new_scopes EXCEPT ![t] = EmptyMap]
  /\ committed' = [committed EXCEPT ![t] = [s \in Scopes |-> NoView]]

(* idle, lines 62-69: take the registry under the scopes lock, then save   *)
IdleTakeScopes(t) ==
  /\ pc[t] = "took_updates"
  /\ IF poisoned
     THEN /\ IdleReturns(t, "panic")
          /\ UNCHANGED scopes
     ELSE \E ret \in SaveReturns :
            LET r == save(WithDataScopes(scopes, data[t]), data[t], options, now, ret)
            IN  /\ scopes' = EmptyMap
                /\ IF r.res = "ok"
                   THEN /\ new_scopes' = [new_scopes EXCEPT ![t] = r.scopes]
                        /\ pc' = [pc EXCEPT ![t] = "saved"]
                        /\ UNCHANGED <<data, committed, idle_result>>
                   ELSE IdleReturns(t, "panic")
  /\ UNCHANGED <<options, socpe_updates, disk, now, ops, writes, env, poisoned, last_write,
                 expiry, locks, pack_io, pack_scope,
                 snapshot>>

(* idle, lines 70-71: swap the new scopes in under the scopes lock *)
IdleSwap(t) ==
  /\ pc[t] = "saved"
  /\ IF poisoned
     THEN /\ IdleReturns(t, "panic")
          /\ UNCHANGED scopes
     ELSE /\ scopes' = new_scopes[t]
          /\ IdleReturns(t, "ok")
  /\ UNCHANGED <<options, socpe_updates, disk, now, ops, writes, env, poisoned, last_write,
                 expiry, locks, pack_io, pack_scope,
                 snapshot>>

----------------------------------------------------------------------------
(* The environment: the clock, the files, the process *)

Tick ==
  /\ ops + env < MaxOps /\ env < MaxEnv
  /\ now < MaxTime
  /\ now' = now + 1
  /\ env' = env + 1
  /\ UNCHANGED <<options, scopes, socpe_updates, disk, pc, data, new_scopes, committed, ops,
                 poisoned, idle_result, writes, last_write, expiry, locks, pack_io, pack_scope,
                 snapshot>>

(* the system clock is set back *)
ClockBack ==
  /\ ops + env < MaxOps /\ env < MaxEnv
  /\ now > 0
  /\ now' = now - 1
  /\ env' = env + 1
  /\ UNCHANGED <<options, scopes, socpe_updates, disk, pc, data, new_scopes, committed, ops,
                 poisoned, idle_result, writes, last_write, expiry, locks, pack_io, pack_scope,
                 snapshot>>

(* a pack file is removed out of band *)
RemovePackFile(scope, path) ==
  /\ ops + env < MaxOps /\ env < MaxEnv
  /\ path \in DOMAIN disk[scope].files
  /\ disk' = [disk EXCEPT ![scope].files = [p \in DOMAIN @ \ {path} |-> @[p]]]
  /\ env' = env + 1
  /\ UNCHANGED <<options, scopes, socpe_updates, now, pc, data, new_scopes, committed, ops,
                 poisoned, idle_result, writes, last_write, expiry, locks, pack_io, pack_scope,
                 snapshot>>

(* a pack file loses its last byte (the terminator of its last line) out   *)
(* of band; its mtime moves                                                *)
TruncatePackFile(scope, path) ==
  /\ ops + env < MaxOps /\ env < MaxEnv
  /\ path \in DOMAIN disk[scope].files
  /\ disk[scope].files[path].size = EncodedSize(disk[scope].files[path].keys, disk[scope].files[path].vals)
  /\ disk' = [disk EXCEPT ![scope].files[path].size = @ - 1,
                          ![scope].files[path].mtime = @ + 1]
  /\ env' = env + 1
  /\ UNCHANGED <<options, scopes, socpe_updates, now, pc, data, new_scopes, committed, ops,
                 poisoned, idle_result, writes, last_write, expiry, locks, pack_io, pack_scope,
                 snapshot>>

(* the process ends and a new one opens the store with its own options *)
Restart(opts) ==
  /\ ops + env < MaxOps /\ env < MaxEnv
  /\ options' = opts
  /\ scopes' = EmptyMap
  /\ socpe_updates' = EmptyMap
  /\ pc' = [t \in Threads |-> "ready"]
  /\ data' = [t \in Threads |-> EmptyMap]
  /\ new_scopes' = [t \in Threads |-> EmptyMap]
  /\ committed' = [t \in Threads |-> [s \in Scopes |-> NoView]]
  /\ idle_result' = [t \in Threads |-> ""]
  /\ last_write' = NoWrite
  /\ poisoned' = FALSE
  /\ env' = env + 1
  /\ UNCHANGED <<disk, now, ops, writes, expiry, locks, pack_io, pack_scope,
                 snapshot>>

(* the calls of the Storage trait *)
NextCalls ==
  \/ \E s \in Scopes : \E k \in KeysOf(s), v \in ValuesOf(s) : Set(s, k, v)
  \/ \E s \in Scopes : \E k \in KeysOf(s) : Remove(s, k)
  \/ \E s \in Scopes : GetAll(s)
  \/ \E t \in IdleCallers : IdleTakeUpdates(t)
  \/ \E t \in IdleCallers : IdleTakeScopes(t)
  \/ \E t \in IdleCallers : IdleSwap(t)

(* what happens to the store from outside the calls *)
NextEnv ==
  \/ Tick
  \/ ClockBack
  \/ \E s \in Scopes : \E p \in DOMAIN disk[s].files : RemovePackFile(s, p)
  \/ \E s \in Scopes : \E p \in DOMAIN disk[s].files : TruncatePackFile(s, p)
  \/ \E o \in OptionChoices : Restart(o)

Next == NextCalls \/ NextEnv

Spec == Init /\ [][Next]_vars

(* the calls alone, on a store nothing else touches *)
SpecCalls == Init /\ [][NextCalls]_vars

----------------------------------------------------------------------------
(* The expiry step of validate on its own: every word for the clock, the   *)
(* stamp and the limit                                                     *)

InitExpiry ==
  /\ options \in {o \in OptionChoices : o.buckets = MaxBuckets /\ o.max_pack_size = MaxPackSize}
  /\ disk = [s \in Scopes |-> NoScopeDir]
  /\ scopes = EmptyMap
  /\ socpe_updates = EmptyMap
  /\ now = 0
  /\ pc = [t \in Threads |-> "ready"]
  /\ data = [t \in Threads |-> EmptyMap]
  /\ new_scopes = [t \in Threads |-> EmptyMap]
  /\ committed = [t \in Threads |-> [s \in Scopes |-> NoView]]
  /\ ops = 0
  /\ env = 0
  /\ poisoned = FALSE
  /\ idle_result = [t \in Threads |-> ""]
  /\ writes = 0
  /\ last_write = NoWrite
  /\ expiry \in [current_time : Words, last_modified : Words, expires : Words,
                 ov : OverflowOutcomes, out : {"none"}]
  /\ pack_io = NoPackIo
  /\ pack_scope = NoPackScope
  /\ snapshot = NoSnapshot
  /\ locks = NoLocks

ApplyExpiry ==
  /\ expiry.out = "none"
  /\ expiry' = [expiry EXCEPT !.out =
                  expiry_step(expiry.current_time, expiry.last_modified, expiry.expires, expiry.ov)]
  /\ UNCHANGED <<options, scopes, socpe_updates, disk, now, pc, data, new_scopes, committed,
                 ops, writes, env, poisoned, idle_result, last_write, pack_io, pack_scope,
                 snapshot, locks>>

SpecExpiry == InitExpiry /\ [][ApplyExpiry]_vars

----------------------------------------------------------------------------
(* Claims *)

AnySet == \E s \in Scopes : \E k \in KeysOf(s), v \in ValuesOf(s) : Set(s, k, v)
AnyRemove == \E s \in Scopes : \E k \in KeysOf(s) : Remove(s, k)
AnyGetAll == \E s \in Scopes : GetAll(s)

(* the staged entry of a key, as a sequence of at most one Option *)
Staged(updates, scope, key) ==
  IF scope \in DOMAIN updates /\ key \in DOMAIN updates[scope]
  THEN <<updates[scope][key]>> ELSE <<>>

(* the committed entries P with the update map D applied *)
Applied(P, D) ==
  LET keep == {e \in DOMAIN P : e[1] \notin DOMAIN D}
      ins == {<<k, D[k].v>> : k \in {x \in DOMAIN D : D[x].some}}
  IN  [e \in keep \cup ins |-> IF e \in ins THEN 1 ELSE P[e]]

EntriesOfView(view) == IF view.kind = "ok" THEN view.entries ELSE EmptyBag

(* C1: a set or remove call changes what get_all returns for no scope:     *)
(* staged mutations stay invisible to get_all until an idle has run.       *)
StagedInvisible ==
  [][(AnySet \/ AnyRemove) => \A n \in Scopes : ViewAfter(n) = View(n)]_vars

(* C1 witness: a key committed with one value has another value staged,    *)
(* and get_all still returns the committed one.                            *)
StagedInvisibleWitness ==
  /\ Staged(socpe_updates, "s1", "k1") = <<Some("v2")>>
  /\ View("s1").kind = "ok"
  /\ BagIn(<<"k1", "v1">>, View("s1").entries)

(* C2: when idle returns Ok, get_all of every scope with staged updates D  *)
(* returns the entries committed before, without the keys of D, plus the   *)
(* inserts of D.                                                           *)
IdleAppliesUpdates ==
  [][\A t \in Threads :
       (IdleSwap(t) /\ idle_result'[t] = "ok") =>
         \A s \in DOMAIN data[t] :
           ViewAfter(s) = [kind |-> "ok",
                          entries |-> Applied(EntriesOfView(committed[t][s]), data[t][s])]]_vars

(* C3: when the save of a scope fails during idle, the registry still      *)
(* holds the previous PackScope of that scope and its files are unchanged. *)
FailedIdleKeepsScope ==
  [][\A t \in Threads :
       (IdleTakeScopes(t) /\ idle_result'[t] = "panic" /\ ~poisoned) =>
         \A s \in DOMAIN data[t] \cap DOMAIN scopes :
           save_scope(scopes[s], data[t][s], options, now).res # "ok" =>
             /\ s \in DOMAIN scopes' /\ scopes'[s] = scopes[s]
             /\ disk'[s] = disk[s]]_vars

(* C4: when the save of one scope fails during idle, every scope whose     *)
(* save succeeds is still swapped into the registry.                       *)
ScopeFailuresIsolated ==
  [][\A t \in Threads :
       (IdleTakeScopes(t) /\ idle_result'[t] = "panic" /\ ~poisoned) =>
         \A s \in DOMAIN data[t] :
           LET saved == save_scope(WithDataScopes(scopes, data[t])[s], data[t][s], options, now)
           IN  saved.res = "ok" => s \in DOMAIN scopes' /\ scopes'[s] = saved.scope]_vars

(* C5: idle takes the staged updates and the registry in one step: no set, *)
(* remove or get_all runs between the two takes, and no get_all runs while *)
(* the registry is emptied.                                                *)
IdleTakesAtomically ==
  [][\A t \in Threads :
       /\ pc[t] = "took_updates" => ~(AnySet \/ AnyRemove \/ AnyGetAll)
       /\ pc[t] = "saved" => ~AnyGetAll]_vars

ScopeOf(name) == MapOrInsert(scopes, name, PackScopeNew)[name]

ListedPacks(meta) ==
  {[path |-> <<d[1] - 1, meta.packs[d[1]][d[2]].name>>, hash |-> meta.packs[d[1]][d[2]].hash] :
     d \in Descriptors(meta)}

(* Pack::validate of a listed pack with the keys its file holds *)
ListedPackValid(dir, pm) ==
  /\ pm.path \in DOMAIN dir.files
  /\ PackValidate(dir.files, pm.path, dir.files[pm.path].keys, pm.hash).v

OptionsMatch(meta, opts) ==
  meta.buckets = opts.buckets /\ meta.max_pack_size = opts.max_pack_size

NotExpired(meta, opts, t) == t - meta.last_modified <= opts.expires

(* C7: for a scope whose meta loads, validate returns true exactly when    *)
(* the options match, the scope is not expired and Pack::validate is true  *)
(* for every pack the meta lists.                                          *)
ValidateIffAllChecks ==
  \A s \in Scopes :
    LET r == validate(ScopeOf(s), disk[s], options, now, "wrap")
        meta == r.scope.meta
    IN  (~poisoned /\ meta.st = "Value") =>
          ((r.res = "true") <=>
             /\ OptionsMatch(meta.v, options)
             /\ NotExpired(meta.v, options, now)
             /\ \A pm \in ListedPacks(meta.v) : ListedPackValid(disk[s], pm))

(* C8: when the keys of a pack fail to load, validate is not true and      *)
(* get_all fails.                                                          *)
KeysFailedInvalidates ==
  \A s \in Scopes :
    LET r == get_all(scopes, options, disk[s], now, poisoned, s, "wrap")
    IN  (r.scope.packs.st = "Value"
         /\ \E h \in DOMAIN r.scope.packs.v : r.scope.packs.v[h].keys.st = "Failed")
        => r.kind # "ok"

(* a listed pack whose file was removed, or whose size or mtime is not the *)
(* one hashed into the meta when the scope was committed                   *)
ChangedOutOfBand(dir, pm) ==
  \/ pm.path \notin DOMAIN dir.files
  \/ pm.hash[3] # dir.files[pm.path].size
  \/ pm.hash[4] # dir.files[pm.path].mtime

(* C9: on a fresh storage get_all of a committed scope fails and returns   *)
(* no entries when one of its pack files was changed or removed out of     *)
(* band, and succeeds when none was.                                       *)
TamperDetected ==
  \A s \in Scopes :
    LET meta == disk[s].meta.v
    IN  (/\ s \notin DOMAIN scopes /\ ~poisoned
         /\ disk[s].meta.exists
         /\ OptionsMatch(meta, options) /\ now >= meta.last_modified
         /\ NotExpired(meta, options, now))
        => ((View(s).kind = "ok") <=>
              ~\E pm \in ListedPacks(meta) : ChangedOutOfBand(disk[s], pm))

(* C10: the expiry step passes exactly when the integer difference         *)
(* current_time - last_modified is at most expires; a stamp later than the *)
(* clock is accepted.                                                      *)
ExpiryIsIntegerDifference ==
  expiry.out # "none" =>
    ((expiry.out = "pass") <=> (expiry.current_time - expiry.last_modified <= expiry.expires))

----------------------------------------------------------------------------
(* Pack::write, Pack::read_keys and Pack::read_contents on the bytes of one  *)
(* pack file. A file is a sequence of bytes; NL is the line feed, SP the     *)
(* space, and a decimal digit is the byte of that digit.                     *)

MaxEntries == 2        \* entries of the pack that is written

NL == "LF"
SP == " "
DigitList == <<"0", "1", "2", "3", "4", "5", "6", "7", "8", "9">>
Digits == SeqRange(DigitList)

KeyBlobs == {<<"a">>, <<"a", "b">>, <<>>}
ValueBlobs == {<<"x">>, <<"x", "y">>, <<>>, <<"x", NL, "y">>}

(* usize::to_string *)
RECURSIVE to_string(_)
to_string(n) ==
  IF n < 10 THEN <<DigitList[n + 1]>>
  ELSE to_string(n \div 10) \o <<DigitList[(n % 10) + 1]>>

DigitValue(d) == CHOOSE i \in 0..9 : DigitList[i + 1] = d

(* str::parse::<usize>: Err on the empty string and on a non-digit *)
RECURSIVE parse_usize(_)
parse_usize(item) ==
  IF item = <<>> \/ \E i \in 1..Len(item) : item[i] \notin Digits
  THEN [ok |-> FALSE, v |-> 0]
  ELSE IF Len(item) = 1 THEN [ok |-> TRUE, v |-> DigitValue(item[1])]
  ELSE [ok |-> TRUE,
        v |-> 10 * parse_usize(SubSeq(item, 1, Len(item) - 1)).v + DigitValue(item[Len(item)])]

(* str::split(sep): the pieces between the separators, one piece for the   *)
(* empty string                                                             *)
RECURSIVE split(_, _)
split(bytes, sep) ==
  IF \A i \in 1..Len(bytes) : bytes[i] # sep THEN <<bytes>>
  ELSE LET i == CHOOSE j \in 1..Len(bytes) :
                  bytes[j] = sep /\ \A k \in 1..(j - 1) : bytes[k] # sep
       IN  <<SubSeq(bytes, 1, i - 1)>> \o split(SubSeq(bytes, i + 1, Len(bytes)), sep)

(* BufRead::lines: the pieces between line feeds, without a last empty one *)
lines(bytes) ==
  LET pieces == split(bytes, NL)
  IN  IF pieces[Len(pieces)] = <<>> THEN SubSeq(pieces, 1, Len(pieces) - 1) ELSE pieces

(* Vec<String>::join(" ") *)
RECURSIVE join(_, _)
join(items, sep) ==
  IF items = <<>> THEN <<>>
  ELSE IF Len(items) = 1 THEN items[1]
  ELSE items[1] \o <<sep>> \o join(Tail(items), sep)

RECURSIVE concat(_)
concat(items) == IF items = <<>> THEN <<>> ELSE Head(items) \o concat(Tail(items))

(* the bytes Pack::write sends to its writer *)
PackBytes(keys, contents) ==
  join([i \in 1..Len(keys) |-> to_string(Len(keys[i]))], SP) \o <<NL>>
  \o concat(keys) \o <<NL>>
  \o concat([i \in 1..Len(contents) |-> contents[i][2] \o <<NL>>])

(* The directory a pack lives in: whether it exists, and the bytes of the  *)
(* files that have a name in it.                                            *)
BucketDir(exists, files) == [exists |-> exists, files |-> files]

(* Pack::write. File::create panics when the file cannot be created and     *)
(* leaves an empty file at the path otherwise; the path then exists, so the *)
(* file is unlinked; the slots are looked at after that; the bytes go to    *)
(* the open file, which has no name any more.                               *)
Pack_write(fs, pack) ==
  IF ~fs.exists
  THEN [res |-> "panic", fs |-> fs, written |-> <<>>]
  ELSE LET created == MapInsert(fs.files, pack.path, <<>>)
           removed == IF pack.path \in DOMAIN created
                      THEN [q \in (DOMAIN created) \ {pack.path} |-> created[q]]
                      ELSE created
           after == [fs EXCEPT !.files = removed]
       IN  IF pack.keys.st # "Value" \/ pack.contents.st # "Value"
           THEN [res |-> "err", fs |-> after, written |-> <<>>]
           ELSE [res |-> "ok", fs |-> after,
                 written |-> PackBytes(pack.keys.v, pack.contents.v)]

(* bytes[start..end] of every key length in turn: panics past the end *)
RECURSIVE slice_keys(_, _, _)
slice_keys(bytes, key_meta_list, last) ==
  IF key_meta_list = <<>> THEN [st |-> "Value", v |-> <<>>]
  ELSE LET end == last + Head(key_meta_list)
       IN  IF end > Len(bytes) THEN [st |-> "panic", v |-> <<>>]
           ELSE LET rest == slice_keys(bytes, Tail(key_meta_list), end)
                IN  IF rest.st = "panic" THEN rest
                    ELSE [st |-> "Value", v |-> <<SubSeq(bytes, last + 1, end)>> \o rest.v]

(* Pack::read_keys on the bytes of the file *)
Pack_read_keys(fs, path) ==
  IF ~fs.exists \/ path \notin DOMAIN fs.files THEN [st |-> "Failed", v |-> <<>>]
  ELSE LET ls == lines(fs.files[path])
       IN  IF Len(ls) < 1 THEN [st |-> "Failed", v |-> <<>>]
           ELSE LET items == split(ls[1], SP)
                    parsed == [i \in 1..Len(items) |-> parse_usize(items[i])]
                IN  IF \E i \in 1..Len(items) : ~parsed[i].ok THEN [st |-> "panic", v |-> <<>>]
                    ELSE IF Len(ls) < 2 THEN [st |-> "Failed", v |-> <<>>]
                    ELSE slice_keys(ls[2], [i \in 1..Len(items) |-> parsed[i].v], 0)

(* Pack::read_contents on the bytes of the file *)
Pack_read_contents(fs, path, keys) ==
  IF ~fs.exists \/ path \notin DOMAIN fs.files THEN [st |-> "Failed", v |-> <<>>]
  ELSE LET ls == lines(fs.files[path])
       IN  IF Len(ls) < 2 + Len(keys) THEN [st |-> "Failed", v |-> <<>>]
           ELSE [st |-> "Value", v |-> [i \in 1..Len(keys) |-> <<keys[i], ls[2 + i]>>]]

PackPath == "p1"

PackEntries == KeyBlobs \X ValueBlobs

PackContentsChoices == UNION {[1..n -> PackEntries] : n \in 0..MaxEntries}

KeysOfContents(contents) == [i \in 1..Len(contents) |-> contents[i][1]]

SlotStates == {"Pending", "Value"}

(* pack files that do not decode: a key-length line that is no number, a    *)
(* key blob shorter than the lengths announce, a value line missing          *)
DamagedFiles ==
  {<<"x", NL, "a", NL, "x", NL>>,
   <<"2", NL, "a", NL, "x", NL>>,
   <<"1", NL, "a", NL>>}

(* what is at the pack's path before the write: no directory, no file, the  *)
(* file of an earlier pack, or a damaged file                               *)
OldFiles ==
  {BucketDir(FALSE, EmptyMap), BucketDir(TRUE, EmptyMap),
   BucketDir(TRUE, MapInsert(EmptyMap, PackPath, PackBytes(<<<<"a">>>>, <<<< <<"a">>, <<"x">> >>>>)))}
  \cup {BucketDir(TRUE, MapInsert(EmptyMap, PackPath, bytes)) : bytes \in DamagedFiles}

MaxPackCalls == 3      \* calls on the pack in one behaviour

(* PackStorage and its environment at rest, for the specifications of the  *)
(* parts                                                                    *)
StorageAtRest ==
  /\ options \in {o \in OptionChoices : o.buckets = MaxBuckets /\ o.max_pack_size = MaxPackSize}
  /\ disk = [s \in Scopes |-> NoScopeDir]
  /\ scopes = EmptyMap
  /\ socpe_updates = EmptyMap
  /\ now = 0
  /\ pc = [t \in Threads |-> "ready"]
  /\ data = [t \in Threads |-> EmptyMap]
  /\ new_scopes = [t \in Threads |-> EmptyMap]
  /\ committed = [t \in Threads |-> [s \in Scopes |-> NoView]]
  /\ ops = 0
  /\ env = 0
  /\ poisoned = FALSE
  /\ idle_result = [t \in Threads |-> ""]
  /\ writes = 0
  /\ last_write = NoWrite

NotRead == [st |-> "none", v |-> <<>>]

InitPack ==
  /\ StorageAtRest
  /\ expiry = NoExpiry
  /\ locks = NoLocks
  /\ pack_scope = NoPackScope
  /\ snapshot = NoSnapshot
  /\ \E contents \in PackContentsChoices, ks \in SlotStates, cs \in SlotStates, fs \in OldFiles :
       pack_io = [call |-> "new", calls |-> 0, fs |-> fs, res |-> "none", written |-> <<>>,
                  keys |-> NotRead, contents |-> NotRead,
                  pack |-> [path |-> PackPath,
                            keys |-> IF ks = "Value"
                                     THEN [st |-> "Value", v |-> KeysOfContents(contents)]
                                     ELSE [st |-> "Pending", v |-> <<>>],
                            contents |-> IF cs = "Value"
                                         THEN [st |-> "Value", v |-> contents]
                                         ELSE [st |-> "Pending", v |-> <<>>]]]

(* pack.write() *)
PackWrite ==
  /\ pack_io.call = "new"
  /\ pack_io.calls < MaxPackCalls
  /\ LET r == Pack_write(pack_io.fs, pack_io.pack)
     IN  pack_io' = [pack_io EXCEPT !.call = "written", !.calls = @ + 1, !.fs = r.fs,
                                    !.res = r.res, !.written = r.written,
                                    !.keys = NotRead, !.contents = NotRead]
  /\ UNCHANGED <<storage_vars, expiry, locks, pack_scope, snapshot>>

(* Pack::read_keys(&pack.path) *)
PackReadKeys ==
  /\ pack_io.calls < MaxPackCalls
  /\ pack_io' = [pack_io EXCEPT !.calls = @ + 1,
                                !.keys = Pack_read_keys(pack_io.fs, pack_io.pack.path),
                                !.contents = NotRead]
  /\ UNCHANGED <<storage_vars, expiry, locks, pack_scope, snapshot>>

(* Pack::read_contents(&pack.path, &keys) with the keys that were read *)
PackReadContents ==
  /\ pack_io.calls < MaxPackCalls
  /\ pack_io.keys.st = "Value"
  /\ pack_io' = [pack_io EXCEPT !.calls = @ + 1,
                                !.contents = Pack_read_contents(pack_io.fs, pack_io.pack.path,
                                                                pack_io.keys.v)]
  /\ UNCHANGED <<storage_vars, expiry, locks, pack_scope, snapshot>>

NextPack == PackWrite \/ PackReadKeys \/ PackReadContents

SpecPack == InitPack /\ [][NextPack]_vars

(* C11: when write returns Ok on a pack whose keys and contents are both    *)
(* Value, the file exists at the pack's path, read_keys gives the pack's    *)
(* keys and read_contents with them gives the pack's (key, value) pairs.    *)
WriteReadRoundTrip ==
  (pack_io.call = "written" /\ pack_io.res = "ok")
    => /\ pack_io.pack.path \in DOMAIN pack_io.fs.files
       /\ pack_io.keys.st # "none" => pack_io.keys = pack_io.pack.keys
       /\ pack_io.contents.st # "none" => pack_io.contents = pack_io.pack.contents

----------------------------------------------------------------------------
(* Snapshot (rspack_core/src/cache/snapshot/mod.rs) over a Storage, the     *)
(* watched files and the clock                                              *)

MaxSnapCalls == 3      \* calls on the snapshot in one behaviour
MaxSnapEnv == 3        \* changes of the watched files and clock ticks in one behaviour

Paths == {"a.ts", "lib/b.js", "im/c.js"}

(* SnapshotOptions: the paths its matcher lists match *)
SnapshotOptions == [immutable_paths |-> {"im/c.js"}, managed_paths |-> {"lib/b.js"}]

is_immutable_path(opts, path) == path \in opts.immutable_paths

is_managed_path(opts, path) == path \in opts.managed_paths

Versions == {"1.0", "2.0"}

CompileTime(t) == [kind |-> "CompileTime", t |-> t, v |-> ""]

LibVersion(v) == [kind |-> "LibVersion", t |-> 0, v |-> v]

(* path_str.as_bytes().to_vec() and String::from_utf8(key) *)
as_bytes(path) == <<"utf8", path>>

from_utf8(key) == key[2]

(* rspack_cacheable to_bytes and from_bytes of a Strategy *)
to_bytes(strategy) == <<"cacheable", strategy>>

from_bytes(value) == value[2]

(* a watched file: whether it exists, its mtime, and the version its       *)
(* package descriptor declares, if one is found                             *)
WatchedFile(exists, mtime, version) == [exists |-> exists, mtime |-> mtime, version |-> version]

(* StrategyHelper::compile_time and StrategyHelper::lib_version *)
compile_time(clock) == clock

lib_version(files, path) == files[path].version

(* StrategyHelper::validate *)
StrategyValidate(files, path, strategy) ==
  IF path \notin DOMAIN files \/ ~files[path].exists THEN "Deleted"
  ELSE IF strategy.kind = "CompileTime"
       THEN IF files[path].mtime > strategy.t THEN "Modified" ELSE "Unchanged"
       ELSE IF ~files[path].version.some THEN "Deleted"
            ELSE IF files[path].version.v # strategy.v THEN "Modified" ELSE "Unchanged"

(* The Storage behind the snapshot, for the snapshot's scope: staged        *)
(* updates and committed entries                                            *)
NewStorage == [updates |-> EmptyMap, entries |-> EmptyMap]

storage_set(st, key, value) == [st EXCEPT !.updates = MapInsert(@, key, [some |-> TRUE, v |-> value])]

storage_remove(st, key) == [st EXCEPT !.updates = MapInsert(@, key, [some |-> FALSE, v |-> <<>>])]

storage_idle(st) ==
  LET keep == {k \in DOMAIN st.entries : k \notin DOMAIN st.updates}
      put == {k \in DOMAIN st.updates : st.updates[k].some}
  IN  [updates |-> EmptyMap,
       entries |-> [k \in keep \cup put |->
                      IF k \in put THEN st.updates[k].v ELSE st.entries[k]]]

RECURSIVE MapPairs(_)
MapPairs(m) ==
  IF DOMAIN m = {} THEN <<>>
  ELSE LET k == CHOOSE x \in DOMAIN m : TRUE
       IN  <<<<k, m[k]>>>> \o MapPairs([x \in (DOMAIN m) \ {k} |-> m[x]])

storage_get_all(st) == MapPairs(st.entries)

(* Snapshot::add for the files in the order of the iterator *)
RECURSIVE add_loop(_, _, _, _, _)
add_loop(st, opts, files, pathSeq, default_strategy) ==
  IF pathSeq = <<>> THEN st
  ELSE LET path == Head(pathSeq)
           rest == Tail(pathSeq)
       IN  IF ~files[path].exists THEN add_loop(st, opts, files, rest, default_strategy)
           ELSE IF is_immutable_path(opts, path)
           THEN add_loop(st, opts, files, rest, default_strategy)
           ELSE LET managed ==
                      IF is_managed_path(opts, path) /\ lib_version(files, path).some
                      THEN storage_set(st, as_bytes(path),
                                       to_bytes(LibVersion(lib_version(files, path).v)))
                      ELSE st
                    after == storage_set(managed, as_bytes(path), to_bytes(default_strategy))
                IN  add_loop(after, opts, files, rest, default_strategy)

add(st, opts, files, clock, pathSeq) ==
  add_loop(st, opts, files, pathSeq, CompileTime(compile_time(clock)))

(* Snapshot::remove *)
RECURSIVE snapshot_remove(_, _)
snapshot_remove(st, pathSeq) ==
  IF pathSeq = <<>> THEN st
  ELSE snapshot_remove(storage_remove(st, as_bytes(Head(pathSeq))), Tail(pathSeq))

(* a variant that files a deleted path under modified as well *)
RECURSIVE calc_loop_deleted_as_modified(_, _)
calc_loop_deleted_as_modified(files, pairs) ==
  IF pairs = <<>> THEN [modified |-> {}, deleted |-> {}]
  ELSE LET path == from_utf8(Head(pairs)[1])
           strategy == from_bytes(Head(pairs)[2])
           r == StrategyValidate(files, path, strategy)
           rest == calc_loop_deleted_as_modified(files, Tail(pairs))
       IN  IF r = "Modified" THEN [rest EXCEPT !.modified = @ \cup {path}]
           ELSE IF r = "Deleted"
           THEN [rest EXCEPT !.deleted = @ \cup {path}, !.modified = @ \cup {path}]
           ELSE rest

(* the loop of Snapshot::calc_modified_files over the pairs of get_all *)
RECURSIVE calc_loop(_, _)
calc_loop(files, pairs) ==
  IF pairs = <<>> THEN [modified |-> {}, deleted |-> {}]
  ELSE LET path == from_utf8(Head(pairs)[1])
           strategy == from_bytes(Head(pairs)[2])
           r == StrategyValidate(files, path, strategy)
           rest == calc_loop(files, Tail(pairs))
       IN  IF r = "Modified" THEN [rest EXCEPT !.modified = @ \cup {path}]
           ELSE IF r = "Deleted" THEN [rest EXCEPT !.deleted = @ \cup {path}]
           ELSE rest

calc_modified_files(st, files) == calc_loop(files, storage_get_all(st))

NoResult == [some |-> FALSE, modified |-> {}, deleted |-> {}]

(* the sequences an iterator over a set of paths can yield *)
PathSeqs(ps) == {q \in [1..Cardinality(ps) -> ps] : SeqRange(q) = ps}

InitSnapshot ==
  /\ StorageAtRest
  /\ expiry = NoExpiry
  /\ locks = NoLocks
  /\ pack_io = NoPackIo
  /\ pack_scope = NoPackScope
  /\ \E libv \in {None, Some("1.0")} :
       snapshot = [call |-> "new", calls |-> 0, env |-> 0, clock |-> 0,
                   options |-> SnapshotOptions,
                   files |-> [p \in Paths |->
                                WatchedFile(TRUE, 0, IF is_managed_path(SnapshotOptions, p)
                                                     THEN libv ELSE None)],
                   storage |-> NewStorage,
                   result |-> NoResult]

SnapshotAdd(ps) ==
  /\ snapshot.calls < MaxSnapCalls
  /\ \E q \in PathSeqs(ps) :
       snapshot' = [snapshot EXCEPT !.call = "add", !.calls = @ + 1, !.result = NoResult,
                      !.storage = add(snapshot.storage, snapshot.options, snapshot.files,
                                      snapshot.clock, q)]
  /\ UNCHANGED <<storage_vars, expiry, locks, pack_io, pack_scope>>

SnapshotRemove(path) ==
  /\ snapshot.calls < MaxSnapCalls
  /\ snapshot' = [snapshot EXCEPT !.call = "remove", !.calls = @ + 1, !.result = NoResult,
                    !.storage = snapshot_remove(snapshot.storage, <<path>>)]
  /\ UNCHANGED <<storage_vars, expiry, locks, pack_io, pack_scope>>

(* storage.idle() of Cache::idle *)
SnapshotIdle ==
  /\ snapshot.calls < MaxSnapCalls
  /\ snapshot' = [snapshot EXCEPT !.call = "idle", !.calls = @ + 1, !.result = NoResult,
                    !.storage = storage_idle(snapshot.storage)]
  /\ UNCHANGED <<storage_vars, expiry, locks, pack_io, pack_scope>>

SnapshotCalc ==
  /\ snapshot.calls < MaxSnapCalls
  /\ LET r == calc_modified_files(snapshot.storage, snapshot.files)
     IN  snapshot' = [snapshot EXCEPT !.call = "calc", !.calls = @ + 1,
                        !.result = [some |-> TRUE, modified |-> r.modified,
                                    deleted |-> r.deleted]]
  /\ UNCHANGED <<storage_vars, expiry, locks, pack_io, pack_scope>>

(* the watched files change and time passes *)
TouchFile(path) ==
  /\ snapshot.env < MaxSnapEnv
  /\ snapshot.files[path].exists
  /\ snapshot' = [snapshot EXCEPT !.call = "env", !.env = @ + 1, !.result = NoResult,
                    !.files[path].mtime = snapshot.clock]
  /\ UNCHANGED <<storage_vars, expiry, locks, pack_io, pack_scope>>

DeleteFile(path) ==
  /\ snapshot.env < MaxSnapEnv
  /\ snapshot.files[path].exists
  /\ snapshot' = [snapshot EXCEPT !.call = "env", !.env = @ + 1, !.result = NoResult,
                    !.files[path].exists = FALSE]
  /\ UNCHANGED <<storage_vars, expiry, locks, pack_io, pack_scope>>

InstallVersion(path, version) ==
  /\ snapshot.env < MaxSnapEnv
  /\ is_managed_path(snapshot.options, path)
  /\ snapshot.files[path].exists
  /\ snapshot.files[path].version # version
  /\ snapshot' = [snapshot EXCEPT !.call = "env", !.env = @ + 1, !.result = NoResult,
                    !.files[path].version = version]
  /\ UNCHANGED <<storage_vars, expiry, locks, pack_io, pack_scope>>

SnapshotTick ==
  /\ snapshot.env < MaxSnapEnv
  /\ snapshot' = [snapshot EXCEPT !.call = "env", !.env = @ + 1, !.result = NoResult,
                    !.clock = @ + 1]
  /\ UNCHANGED <<storage_vars, expiry, locks, pack_io, pack_scope>>

NextSnapshot ==
  \/ \E ps \in (SUBSET Paths) \ {{}} : SnapshotAdd(ps)
  \/ \E path \in Paths : SnapshotRemove(path)
  \/ SnapshotIdle
  \/ SnapshotCalc
  \/ \E path \in Paths : TouchFile(path)
  \/ \E path \in Paths : DeleteFile(path)
  \/ \E path \in Paths, version \in {None} \cup {Some(v) : v \in Versions} :
       InstallVersion(path, version)
  \/ SnapshotTick

SpecSnapshot == InitSnapshot /\ [][NextSnapshot]_vars

(* C12: Snapshot.add stages, for each of its paths: nothing when the path   *)
(* does not exist or is immutable; LibVersion(v) as the final value when    *)
(* the path is managed and a version v is resolvable; CompileTime(t0)       *)
(* otherwise, t0 being the compile time of the call.                        *)
AddStagesByStrategy ==
  [][\A ps \in (SUBSET Paths) \ {{}} :
       SnapshotAdd(ps) =>
         \A p \in ps :
           LET k == as_bytes(p)
               before == snapshot.storage.updates
               after == snapshot'.storage.updates
               f == snapshot.files[p]
           IN  IF ~f.exists \/ is_immutable_path(snapshot.options, p)
               THEN /\ (k \in DOMAIN after) = (k \in DOMAIN before)
                    /\ k \in DOMAIN before => after[k] = before[k]
               ELSE /\ k \in DOMAIN after
                    /\ after[k].some
                    /\ from_bytes(after[k].v) =
                         IF is_managed_path(snapshot.options, p) /\ f.version.some
                         THEN LibVersion(f.version.v)
                         ELSE CompileTime(compile_time(snapshot.clock))]_vars

CommittedPaths == {from_utf8(k) : k \in DOMAIN snapshot.storage.entries}

CommittedStrategy(p) == from_bytes(snapshot.storage.entries[as_bytes(p)])

(* C13: the result of calc_modified_files holds a committed path in         *)
(* modified iff its strategy validates as Modified, in deleted iff as       *)
(* Deleted, in neither iff as Unchanged; the sets are disjoint and hold no  *)
(* path that is not committed.                                              *)
CalcClassifies ==
  snapshot.result.some =>
    /\ \A p \in CommittedPaths :
         LET r == StrategyValidate(snapshot.files, p, CommittedStrategy(p))
         IN  /\ (p \in snapshot.result.modified) = (r = "Modified")
             /\ (p \in snapshot.result.deleted) = (r = "Deleted")
             /\ (p \notin snapshot.result.modified \cup snapshot.result.deleted)
                  = (r = "Unchanged")
    /\ snapshot.result.modified \cap snapshot.result.deleted = {}
    /\ snapshot.result.modified \cup snapshot.result.deleted \subseteq CommittedPaths

(* add of a.ts and lib/b.js, idle, a.ts touched later, lib/b.js deleted *)
CalcClassifiesWitness ==
  /\ snapshot.result.some
  /\ CommittedPaths = {"a.ts", "lib/b.js"}
  /\ snapshot.result.modified = {"a.ts"}
  /\ snapshot.result.deleted = {"lib/b.js"}

----------------------------------------------------------------------------
(* Claims on PackStorage over an invalidated scope *)

InvalidatedKinds == {"err_options", "err_expired"}

(* the keys of the packs of every bucket of a scope hash to that bucket *)
KeysInTheirBuckets(sc, opts) ==
  /\ sc.meta.st = "Value" /\ sc.packs.st = "Value"
  /\ sc.meta.v.buckets = opts.buckets
  /\ \A h \in DOMAIN sc.packs.v :
       sc.packs.v[h].keys.st = "Value" =>
         \A k \in SeqRange(sc.packs.v[h].keys.v) :
           sc.packs.v[h].path[1] = get_key_bucket_id(k, opts.buckets)

(* C14: when get_all of a scope failed because its meta disagrees with the *)
(* options or has expired, then after an idle that returns Ok get_all of    *)
(* the scope returns exactly the inserts that were staged, and the scope's  *)
(* keys lie in the buckets computed with the current options.               *)
InvalidScopeRebuilt ==
  [][\A t \in Threads :
       (IdleSwap(t) /\ idle_result'[t] = "ok") =>
         \A s \in DOMAIN data[t] :
           committed[t][s].kind \in InvalidatedKinds =>
             /\ ViewAfter(s) = [kind |-> "ok", entries |-> Applied(EmptyBag, data[t][s])]
             /\ s \in DOMAIN scopes' /\ KeysInTheirBuckets(scopes'[s], options)]_vars

----------------------------------------------------------------------------
(* One PackScope object over the directory of its scope: the calls          *)
(* validate, get_contents and save_scope, step by step, with the tasks each *)
(* loading step spawns, while files of the directory change out of band.    *)

MaxScopeCalls == 2     \* calls on the PackScope in one behaviour
MaxScopeEnv == 1       \* out-of-band changes of the directory in one behaviour

Running == [st |-> "Running", v |-> <<>>]

NoTasks == EmptyMap

(* the packs ensure_pack_keys would load again though their slot is set *)
key_tasks_all(scope) == DOMAIN scope.packs.v

(* the packs ensure_pack_keys spawns a task for: keys Pending *)
key_tasks(scope) == {h \in DOMAIN scope.packs.v : scope.packs.v[h].keys.st = "Pending"}

(* the packs ensure_pack_contents spawns a task for: contents Pending and   *)
(* keys Value                                                               *)
content_tasks(scope) ==
  {h \in DOMAIN scope.packs.v :
     scope.packs.v[h].contents.st = "Pending" /\ scope.packs.v[h].keys.st = "Value"}

(* a join that does not wait for its tasks *)
join_all_not_awaited(tasks) == TRUE

(* block_on(join_all(tasks)): every task has finished *)
join_all(tasks) == \A h \in DOMAIN tasks : tasks[h] # Running

Finished(tasks) == {h \in DOMAIN tasks : tasks[h] # Running}

StillRunning(tasks) == [h \in (DOMAIN tasks) \ Finished(tasks) |-> Running]

(* for (hash, item) in pack_keys { pack.keys = item } *)
store_pack_keys(scope, tasks) ==
  [scope EXCEPT !.packs.v = [h \in DOMAIN @ |->
     IF h \in Finished(tasks) THEN [@[h] EXCEPT !.keys = tasks[h]] ELSE @[h]]]

(* for (hash, item) in pack_contents { pack.contents = item } *)
store_pack_contents(scope, tasks) ==
  [scope EXCEPT !.packs.v = [h \in DOMAIN @ |->
     IF h \in Finished(tasks) THEN [@[h] EXCEPT !.contents = tasks[h]] ELSE @[h]]]

(* the directories a PackScope can find: those of the storage, and one      *)
(* whose only pack holds the first key                                      *)
ScopeLayouts == Layouts \cup { << <<"k1">> >> }

ScopeDirChoices(opts, lm) ==
  {NoScopeDir} \cup {CommittedDir(opts, lm, l) : l \in {x \in ScopeLayouts : LayoutFits(x, opts)}}

ScopeOptionChoices == {o \in OptionChoices : o.max_pack_size = MaxPackSize}

(* the update maps handed to save_scope *)
DataChoices ==
  LET opt == {None} \cup {Some(v) : v \in Values}
  IN  UNION {[ks -> opt] : ks \in (SUBSET Keys) \ {{}}}

NoSaved == [some |-> FALSE, res |-> "", old |-> PackScopeNew, data |-> EmptyMap,
            scope |-> PackScopeNew]

InitScope ==
  /\ StorageAtRest
  /\ expiry = NoExpiry
  /\ locks = NoLocks
  /\ pack_io = NoPackIo
  /\ snapshot = NoSnapshot
  /\ \E opts \in ScopeOptionChoices, written \in ScopeOptionChoices, t \in 0..(MaxExpires + 1) :
       \E dir \in ScopeDirChoices(written, 0) :
         pack_scope = [call |-> "new", pc |-> "ready", calls |-> 0, env |-> 0,
                       scope |-> PackScopeNew, dir |-> dir, opts |-> opts, now |-> t,
                       ktasks |-> NoTasks, ctasks |-> NoTasks,
                       res |-> "", entries |-> EmptyBag, saved |-> NoSaved]

ScopeReturn(call, scope, res, entries) ==
  pack_scope' = [pack_scope EXCEPT !.call = call, !.pc = "ready", !.calls = @ + 1,
                                   !.scope = scope, !.res = res, !.entries = entries]

(* the paths of the pack files of a scope: <bucket id>/<name> *)
ScopePaths == (0..(MaxBuckets - 1)) \X SeqRange(NameList)

ScopeOthersUnchanged == UNCHANGED <<storage_vars, expiry, locks, pack_io, snapshot>>

(* validate, lines 66-84: ensure_meta, the options and the expiry *)
ScopeValidate ==
  /\ pack_scope.pc = "ready"
  /\ pack_scope.calls < MaxScopeCalls
  /\ LET em == ensure_meta(pack_scope.scope, pack_scope.dir)
         meta == em.scope.meta.v
         opts == pack_scope.opts
     IN  IF em.res # "ok"
         THEN ScopeReturn("validate", em.scope,
                          IF em.res = "panic" THEN "panic" ELSE "err_meta", EmptyBag)
         ELSE IF meta.buckets # opts.buckets \/ meta.max_pack_size # opts.max_pack_size
         THEN ScopeReturn("validate", em.scope, "err_options", EmptyBag)
         ELSE IF expiry_step(pack_scope.now, meta.last_modified, opts.expires, "wrap") = "expired"
         THEN ScopeReturn("validate", em.scope, "err_expired", EmptyBag)
         ELSE pack_scope' = [pack_scope EXCEPT !.call = "validate", !.pc = "spawn_keys",
                               !.calls = @ + 1, !.scope = em.scope, !.res = "",
                               !.entries = EmptyBag]
  /\ ScopeOthersUnchanged

(* get_contents, line 48: ensure_meta *)
ScopeGetContents ==
  /\ pack_scope.pc = "ready"
  /\ pack_scope.calls < MaxScopeCalls
  /\ LET em == ensure_meta(pack_scope.scope, pack_scope.dir)
     IN  IF em.res # "ok"
         THEN ScopeReturn("get_contents", em.scope,
                          IF em.res = "panic" THEN "panic" ELSE "err_meta", EmptyBag)
         ELSE pack_scope' = [pack_scope EXCEPT !.call = "get_contents", !.pc = "spawn_keys",
                               !.calls = @ + 1, !.scope = em.scope, !.res = "",
                               !.entries = EmptyBag]
  /\ ScopeOthersUnchanged

(* ensure_pack_keys, lines 142-148: one task per pack with Pending keys *)
ScopeSpawnKeyTasks ==
  /\ pack_scope.pc = "spawn_keys"
  /\ pack_scope' = [pack_scope EXCEPT !.pc = "load_keys",
                      !.ktasks = [h \in key_tasks(pack_scope.scope) |-> Running]]
  /\ ScopeOthersUnchanged

(* load_pack_key, lines 132-140 *)
ScopeLoadPackKey(path) ==
  /\ \E h \in DOMAIN pack_scope.ktasks :
       /\ pack_scope.scope.packs.v[h].path = path
       /\ pack_scope.ktasks[h] = Running
       /\ pack_scope' = [pack_scope EXCEPT !.ktasks[h] = read_keys(pack_scope.dir.files, path)]
  /\ ScopeOthersUnchanged

(* ensure_pack_keys, lines 150-160: the join and the assignment of the slots *)
ScopeJoinKeyTasks ==
  /\ pack_scope.pc = "load_keys"
  /\ join_all(pack_scope.ktasks)
  /\ pack_scope' = [pack_scope EXCEPT
                      !.pc = IF pack_scope.call = "validate" THEN "validate_packs"
                             ELSE "spawn_contents",
                      !.scope = store_pack_keys(pack_scope.scope, pack_scope.ktasks),
                      !.ktasks = StillRunning(pack_scope.ktasks)]
  /\ ScopeOthersUnchanged

(* validate, lines 88-90: validate_packs and the result *)
ScopeValidatePacks ==
  /\ pack_scope.pc = "validate_packs"
  /\ LET vp == validate_packs(pack_scope.scope, pack_scope.dir)
     IN  pack_scope' = [pack_scope EXCEPT !.pc = "ready",
                          !.res = IF vp.res # "ok" THEN "err_packs"
                                  ELSE IF vp.v THEN "true" ELSE "false"]
  /\ ScopeOthersUnchanged

(* ensure_pack_contents, lines 180-197: one task per pack with Pending      *)
(* contents and Value keys                                                  *)
ScopeSpawnContentTasks ==
  /\ pack_scope.pc = "spawn_contents"
  /\ pack_scope' = [pack_scope EXCEPT !.pc = "load_contents",
                      !.ctasks = [h \in content_tasks(pack_scope.scope) |-> Running]]
  /\ ScopeOthersUnchanged

(* load_pack_content, lines 167-178 *)
ScopeLoadPackContent(path) ==
  /\ \E h \in DOMAIN pack_scope.ctasks :
       /\ pack_scope.scope.packs.v[h].path = path
       /\ pack_scope.ctasks[h] = Running
       /\ pack_scope' = [pack_scope EXCEPT !.ctasks[h] =
                           read_contents(pack_scope.dir.files, path,
                                         pack_scope.scope.packs.v[h].keys.v)]
  /\ ScopeOthersUnchanged

(* ensure_pack_contents, lines 199-209, and get_contents, lines 52-59 *)
ScopeJoinContentTasks ==
  /\ pack_scope.pc = "load_contents"
  /\ join_all(pack_scope.ctasks)
  /\ LET sc == store_pack_contents(pack_scope.scope, pack_scope.ctasks)
     IN  pack_scope' = [pack_scope EXCEPT !.pc = "ready", !.scope = sc, !.res = "ok",
                          !.entries = EntriesOf(sc.packs.v),
                          !.ctasks = StillRunning(pack_scope.ctasks)]
  /\ ScopeOthersUnchanged

(* save_scope(&scope, &data, &options): the scope it returns is a new       *)
(* PackScope; this one is not called again                                  *)
ScopeSaveScope(dataMap) ==
  /\ pack_scope.pc = "ready"
  /\ pack_scope.calls < MaxScopeCalls
  /\ LET r == save_scope(pack_scope.scope, dataMap, pack_scope.opts, pack_scope.now)
     IN  pack_scope' = [pack_scope EXCEPT
                          !.call = "save_scope", !.calls = @ + 1,
                          !.pc = "saved", !.res = r.res, !.entries = EmptyBag,
                          !.saved = [some |-> TRUE, res |-> r.res, old |-> pack_scope.scope,
                                     data |-> dataMap, scope |-> r.scope]]
  /\ ScopeOthersUnchanged

(* a pack file of the scope is removed out of band *)
ScopeRemovePackFile(path) ==
  /\ pack_scope.env < MaxScopeEnv
  /\ path \in DOMAIN pack_scope.dir.files
  /\ pack_scope' = [pack_scope EXCEPT !.env = @ + 1,
                      !.dir.files = [q \in (DOMAIN @) \ {path} |-> @[q]]]
  /\ ScopeOthersUnchanged

(* a pack file of the scope loses its last value line out of band *)
ScopeCutPackFile(path) ==
  /\ pack_scope.env < MaxScopeEnv
  /\ path \in DOMAIN pack_scope.dir.files
  /\ pack_scope.dir.files[path].vals # <<>>
  /\ LET f == pack_scope.dir.files[path]
         vals == SubSeq(f.vals, 1, Len(f.vals) - 1)
     IN  pack_scope' = [pack_scope EXCEPT !.env = @ + 1,
                          !.dir.files[path] = PackFile(f.keys, vals, EncodedSize(f.keys, vals),
                                                       f.mtime + 1)]
  /\ ScopeOthersUnchanged

NextScope ==
  \/ ScopeValidate
  \/ ScopeGetContents
  \/ ScopeSpawnKeyTasks
  \/ \E path \in ScopePaths : ScopeLoadPackKey(path)
  \/ ScopeJoinKeyTasks
  \/ ScopeValidatePacks
  \/ ScopeSpawnContentTasks
  \/ \E path \in ScopePaths : ScopeLoadPackContent(path)
  \/ ScopeJoinContentTasks
  \/ \E dataMap \in DataChoices : ScopeSaveScope(dataMap)
  \/ \E path \in ScopePaths : ScopeRemovePackFile(path)
  \/ \E path \in ScopePaths : ScopeCutPackFile(path)

SpecScope == InitScope /\ [][NextScope]_vars

----------------------------------------------------------------------------
(* Claims on one PackScope *)

(* a step that runs ensure_meta: the first step of validate or get_contents *)
RunsEnsureMeta == ScopeValidate \/ ScopeGetContents

TotalDescriptors(meta) == SumOver(1..Len(meta.packs), [b \in 1..Len(meta.packs) |-> Len(meta.packs[b])])

BothPending(pack) == pack.keys.st = "Pending" /\ pack.contents.st = "Pending"

(* C15: ensure_meta on a scope whose meta is Pending: when the meta file is *)
(* read, meta is Value and packs is Value with one Pack per descriptor of   *)
(* the meta, at <bucket id>/<name>, keys and contents Pending; when it      *)
(* cannot be read, meta and packs are Failed and the call returns an error. *)
EnsureMetaPopulatesPacks ==
  [][(RunsEnsureMeta /\ pack_scope.scope.meta.st = "Pending") =>
       LET read == ScopeMetaRead(pack_scope.dir)
           after == pack_scope'.scope
       IN  IF read.st = "Value"
           THEN /\ after.meta = read
                /\ after.packs.st = "Value"
                /\ Cardinality(DOMAIN after.packs.v) = TotalDescriptors(read.v)
                /\ \A b \in 1..Len(read.v.packs) : \A i \in 1..Len(read.v.packs[b]) :
                     LET pm == read.v.packs[b][i]
                     IN  /\ pm.hash \in DOMAIN after.packs.v
                         /\ after.packs.v[pm.hash].path = <<b - 1, pm.name>>
                         /\ BothPending(after.packs.v[pm.hash])
           ELSE /\ after.meta.st = "Failed"
                /\ after.packs.st = "Failed"
                /\ pack_scope'.pc = "ready"
                /\ pack_scope'.res = "err_meta"]_vars

(* C15 witness: the first call has read a meta with two descriptors and the *)
(* scope holds two packs, nothing loaded yet.                               *)
EnsureMetaPopulatesPacksWitness ==
  /\ pack_scope.pc = "spawn_keys"
  /\ pack_scope.calls = 1
  /\ pack_scope.scope.meta.st = "Value"
  /\ TotalDescriptors(pack_scope.scope.meta.v) = 2
  /\ pack_scope.scope.packs.st = "Value"
  /\ Cardinality(DOMAIN pack_scope.scope.packs.v) = 2
  /\ \A h \in DOMAIN pack_scope.scope.packs.v : BothPending(pack_scope.scope.packs.v[h])

SlotKept(before, after) == before.st # "Pending" => after = before

SlotStepsForward(before, after) ==
  /\ SlotKept(before, after)
  /\ after.st \in {before.st, "Value", "Failed"}

(* C16: within one PackScope every slot (meta, each pack's keys, each       *)
(* pack's contents) only goes from Pending to Value or Failed and is never  *)
(* changed once it is Value or Failed; contents is Value only if keys is.   *)
SlotsSetOnce ==
  [][LET before == pack_scope.scope
        after == pack_scope'.scope
    IN  /\ SlotStepsForward(before.meta, after.meta)
        /\ before.packs.st # "Pending" =>
             /\ after.packs.st = before.packs.st
             /\ DOMAIN after.packs.v = DOMAIN before.packs.v
             /\ \A h \in DOMAIN before.packs.v :
                  /\ SlotStepsForward(before.packs.v[h].keys, after.packs.v[h].keys)
                  /\ SlotStepsForward(before.packs.v[h].contents, after.packs.v[h].contents)
        /\ after.packs.st = "Value" =>
             \A h \in DOMAIN after.packs.v :
               after.packs.v[h].contents.st = "Value" => after.packs.v[h].keys.st = "Value"]_vars

(* C16 witness: a second call has run its key loading on a scope one of     *)
(* whose packs has its keys and contents loaded and its file gone.          *)
SlotsSetOnceWitness ==
  /\ pack_scope.calls = 2
  /\ pack_scope.pc \in {"validate_packs", "spawn_contents"}
  /\ pack_scope.scope.packs.st = "Value"
  /\ \E h \in DOMAIN pack_scope.scope.packs.v :
       /\ pack_scope.scope.packs.v[h].keys.st = "Value"
       /\ pack_scope.scope.packs.v[h].contents.st = "Value"
       /\ pack_scope.scope.packs.v[h].path \notin DOMAIN pack_scope.dir.files

PacksOfScope == IF pack_scope.scope.packs.st = "Value" THEN pack_scope.scope.packs.v ELSE EmptyMap

NoKeysPending == \A h \in DOMAIN PacksOfScope : PacksOfScope[h].keys.st # "Pending"

NoContentsPending == \A h \in DOMAIN PacksOfScope : PacksOfScope[h].contents.st # "Pending"

ValidateReturnedTrue ==
  pack_scope.call = "validate" /\ pack_scope.pc = "ready" /\ pack_scope.res = "true"

GetContentsReturnedOk ==
  pack_scope.call = "get_contents" /\ pack_scope.pc = "ready" /\ pack_scope.res = "ok"

KeyLoadingDone == \A h \in DOMAIN pack_scope.ktasks : pack_scope.ktasks[h] # Running

ContentLoadingStarted == pack_scope.pc = "load_contents" \/ DOMAIN pack_scope.ctasks # {}

(* C17 as stated: no content-loading task starts before every key-loading   *)
(* task has completed, and when validate returns true no pack has its keys  *)
(* or its contents slot Pending.                                            *)
ValidateTrueAllLoaded ==
  /\ ContentLoadingStarted => KeyLoadingDone
  /\ ValidateReturnedTrue => NoKeysPending /\ NoContentsPending

(* C17 amended: no content-loading task starts before every key-loading     *)
(* task has completed; when validate returns true no pack has its keys slot *)
(* Pending; when get_contents returns Ok no pack has its keys slot Pending  *)
(* and no pack with Value keys has its contents slot Pending.               *)
KeysLoadedBeforeContents ==
  /\ ContentLoadingStarted => KeyLoadingDone /\ NoKeysPending
  /\ ValidateReturnedTrue => NoKeysPending
  /\ GetContentsReturnedOk =>
       /\ NoKeysPending
       /\ \A h \in DOMAIN PacksOfScope :
            PacksOfScope[h].keys.st = "Value" => PacksOfScope[h].contents.st # "Pending"

(* C17 witness: validate has returned true on a scope with two packs whose  *)
(* keys are loaded and whose contents are not                               *)
KeysLoadedBeforeContentsWitness ==
  /\ ValidateReturnedTrue
  /\ Cardinality(DOMAIN PacksOfScope) = 2
  /\ \A h \in DOMAIN PacksOfScope :
       PacksOfScope[h].keys.st = "Value" /\ PacksOfScope[h].contents.st = "Pending"

(* C18: when get_contents returns Ok, every pack the meta lists has its     *)
(* contents loaded and the result holds the contents of all of them, none   *)
(* left out.                                                                *)
GetContentsReturnsAllPacks ==
  GetContentsReturnedOk =>
    /\ Cardinality(DOMAIN PacksOfScope) = TotalDescriptors(pack_scope.scope.meta.v)
    /\ \A h \in DOMAIN PacksOfScope : PacksOfScope[h].contents.st = "Value"
    /\ pack_scope.entries = EntriesOf(PacksOfScope)

----------------------------------------------------------------------------
(* Claims on save_scope *)

Saved == pack_scope.saved

(* the scope handed to save_scope has its meta, its packs and every pack's  *)
(* keys and contents loaded                                                 *)
SavedFromLoaded ==
  /\ Saved.some
  /\ Saved.old.meta.st = "Value" /\ Saved.old.packs.st = "Value"
  /\ \A h \in DOMAIN Saved.old.packs.v :
       Saved.old.packs.v[h].keys.st = "Value" /\ Saved.old.packs.v[h].contents.st = "Value"

OldDescriptors == Descriptors(Saved.old.meta.v)

OldPackMeta(d) == Saved.old.meta.v.packs[d[1]][d[2]]

OldPack(d) == Saved.old.packs.v[OldPackMeta(d).hash]

HoldsUpdatedKey(d) == \E k \in DOMAIN Saved.data : k \in SeqRange(OldPack(d).keys.v)

ListedInBucket(meta, b, pm) == b <= Len(meta.packs) /\ pm \in SeqRange(meta.packs[b])

ListedAnywhere(meta, pm) == \E b \in 1..Len(meta.packs) : pm \in SeqRange(meta.packs[b])

(* C19: save_scope carries over every old pack that holds none of the       *)
(* updated keys: the new meta lists its PackFileMeta in the same bucket and *)
(* the new packs map holds the same pack; every old pack that holds an      *)
(* updated or deleted key is absent from the new meta.                      *)
UntouchedPacksCarriedOver ==
  SavedFromLoaded =>
    /\ Saved.res = "ok"
    /\ \A d \in OldDescriptors :
         IF HoldsUpdatedKey(d)
         THEN ~ListedAnywhere(Saved.scope.meta.v, OldPackMeta(d))
         ELSE /\ ListedInBucket(Saved.scope.meta.v, d[1], OldPackMeta(d))
              /\ OldPackMeta(d).hash \in DOMAIN Saved.scope.packs.v
              /\ Saved.scope.packs.v[OldPackMeta(d).hash] = OldPack(d)

CommittedKeys == UNION {SeqRange(OldPack(d).keys.v) : d \in OldDescriptors}

(* what get_contents returns from a scope over the directory *)
ContentsOf(scope) ==
  LET c == get_contents(scope, pack_scope.dir)
  IN  [kind |-> c.res, entries |-> c.entries]

(* C20: a dirty key that is committed has its source pack taken out of the  *)
(* new meta; an update map that only removes keys that are not committed    *)
(* removes no pack and leaves the committed entries of the scope unchanged. *)
RemoveOfAbsentKeyIsNoOp ==
  SavedFromLoaded =>
    /\ Saved.res = "ok"
    /\ \A d \in OldDescriptors :
         HoldsUpdatedKey(d) => ~ListedAnywhere(Saved.scope.meta.v, OldPackMeta(d))
    /\ (\A k \in DOMAIN Saved.data : ~Saved.data[k].some /\ k \notin CommittedKeys) =>
         /\ \A d \in OldDescriptors : ListedAnywhere(Saved.scope.meta.v, OldPackMeta(d))
         /\ ContentsOf(Saved.scope) = ContentsOf(Saved.old)

(* C21: every ScopeMeta that save_scope produces has one pack list per       *)
(* bucket of the options, packs.length = buckets = options.buckets, so that *)
(* packs[b] exists for every bucket b; save_scope returns such a meta for   *)
(* every scope it is given, a scope without a previous meta included.       *)
SavedMetaHasAllBuckets ==
  Saved.some =>
    /\ Saved.res = "ok"
    /\ Saved.scope.meta.st = "Value"
    /\ Saved.scope.meta.v.buckets = pack_scope.opts.buckets
    /\ Len(Saved.scope.meta.v.packs) = Saved.scope.meta.v.buckets

----------------------------------------------------------------------------
(* Claims on what idle leaves committed *)

(* the ScopeMeta the store holds for a scope once the step is taken: the    *)
(* one of the registry, else the one in the scope's directory               *)
CommittedMetaAfter(s) ==
  IF s \in DOMAIN scopes' /\ scopes'[s].meta.st = "Value"
  THEN [some |-> TRUE, v |-> scopes'[s].meta.v]
  ELSE [some |-> disk'[s].meta.exists, v |-> disk'[s].meta.v]

(* every key of every pack file a meta lists under bucket b hashes to b *)
ListedKeysInBucket(meta, files, B) ==
  \A b \in 1..Len(meta.packs) : \A i \in 1..Len(meta.packs[b]) :
    LET path == <<b - 1, meta.packs[b][i].name>>
    IN  path \in DOMAIN files =>
          \A k \in SeqRange(files[path].keys) :
            b - 1 < B /\ get_key_bucket_id(k, B) = b - 1

(* C22: with options.buckets = B, after an idle that returns Ok every key   *)
(* stored in a pack that the committed ScopeMeta of a scope with staged     *)
(* updates lists under bucket b satisfies bucket_id(key, B) = b, 0 <= b < B. *)
CommittedKeysInTheirBuckets ==
  [][\A t \in Threads :
       (IdleSwap(t) /\ idle_result'[t] = "ok") =>
         \A s \in DOMAIN data[t] :
           CommittedMetaAfter(s).some =>
             ListedKeysInBucket(CommittedMetaAfter(s).v, disk'[s].files, options.buckets)]_vars

(* the entries of a bag of (key, value) pairs have pairwise distinct keys *)
KeysUnique(entries) ==
  \A e \in DOMAIN entries :
    /\ entries[e] = 1
    /\ \A f \in DOMAIN entries : f[1] = e[1] => f = e

----------------------------------------------------------------------------
(* Claims on the packs save_scope builds *)

(* the live entries of the dirty buckets: the staged inserts, and the       *)
(* entries of the old packs that hold a dirty key whose own key is not dirty *)
SavedLiveEntries ==
  LET inserts == {<<k, Saved.data[k].v>> : k \in {x \in DOMAIN Saved.data : Saved.data[x].some}}
      old == IF Saved.old.packs.st = "Value" THEN Saved.old.packs.v ELSE EmptyMap
      hit == {h \in DOMAIN old :
                /\ old[h].keys.st = "Value" /\ old[h].contents.st = "Value"
                /\ \E k \in DOMAIN Saved.data : k \in SeqRange(old[h].keys.v)}
      survivors == UNION {{e \in SeqRange(old[h].contents.v) : e[1] \notin DOMAIN Saved.data} : h \in hit}
  IN  inserts \cup survivors

(* the packs of the saved scope that hold an entry *)
SavedHolders(e) ==
  {h \in DOMAIN Saved.scope.packs.v :
     /\ Saved.scope.packs.v[h].contents.st = "Value"
     /\ e \in SeqRange(Saved.scope.packs.v[h].contents.v)}

(* a pack is listed by the saved meta under the bucket of its path *)
SavedListed(h) ==
  LET pk == Saved.scope.packs.v[h]
  IN  /\ pk.path[1] + 1 <= Len(Saved.scope.meta.v.packs)
      /\ \E i \in 1..Len(Saved.scope.meta.v.packs[pk.path[1] + 1]) :
           Saved.scope.meta.v.packs[pk.path[1] + 1][i].hash = h

(* C24: save_scope places every live entry of a dirty bucket in exactly one *)
(* new pack, listed under the bucket of the entry's key, and a pack holds   *)
(* more than one entry only while its encoded size stays within             *)
(* max_pack_size.                                                           *)
LiveEntriesPartitioned ==
  Saved.some =>
    /\ Saved.res = "ok"
    /\ \A e \in SavedLiveEntries :
         /\ Cardinality(SavedHolders(e)) = 1
         /\ \A h \in SavedHolders(e) :
              /\ SavedListed(h)
              /\ Saved.scope.packs.v[h].path[1] = get_key_bucket_id(e[1], pack_scope.opts.buckets)
    /\ \A h \in DOMAIN Saved.scope.packs.v :
         LET pk == Saved.scope.packs.v[h]
         IN  (pk.contents.st = "Value" /\ Len(pk.contents.v) > 1) =>
               EncodedSize(pk.keys.v, [i \in 1..Len(pk.contents.v) |-> pk.contents.v[i][2]])
                 <= pack_scope.opts.max_pack_size

----------------------------------------------------------------------------
(* Claims on Pack over the bytes of its file *)

----------------------------------------------------------------------------
(* Claims on the frame of idle *)

(* the scopes an idle call has staged updates for: the staged map before   *)
(* the call takes it, the taken map afterwards                               *)
StagedScopes(t) == IF pc[t] = "ready" THEN DOMAIN socpe_updates ELSE DOMAIN data[t]

IdleStep(t) == IdleTakeUpdates(t) \/ IdleTakeScopes(t) \/ IdleSwap(t)

(* the ScopeMeta the store holds for a scope: the one of the registry, else *)
(* the one in the scope's directory                                         *)
CommittedMeta(s) ==
  IF s \in DOMAIN scopes /\ scopes[s].meta.st = "Value"
  THEN [some |-> TRUE, v |-> scopes[s].meta.v]
  ELSE [some |-> disk[s].meta.exists, v |-> disk[s].meta.v]

SameButLastModified(m, n) ==
  m.some = n.some /\ [m.v EXCEPT !.last_modified = 0] = [n.v EXCEPT !.last_modified = 0]

(* C26: no step of an idle call changes a scope the call has no staged      *)
(* updates for: its files stay as they are, its ScopeMeta stays the same up *)
(* to last_modified, and get_all of it returns what it returned before.     *)
IdleFramesOtherScopes ==
  [][\A t \in Threads :
       IdleStep(t) =>
         \A s \in Scopes \ StagedScopes(t) :
           /\ disk'[s] = disk[s]
           /\ SameButLastModified(CommittedMetaAfter(s), CommittedMeta(s))
           /\ ViewAfter(s) = View(s)]_vars

(* the key line of a file announces more bytes than its key blob holds, or  *)
(* its key-length line is not a list of numbers                             *)
KeysUndecodable(bytes) ==
  LET ls == lines(bytes)
      items == split(ls[1], SP)
  IN  /\ Len(ls) >= 1
      /\ \/ \E i \in 1..Len(items) : ~parse_usize(items[i]).ok
         \/ /\ Len(ls) >= 2
            /\ SumOver(1..Len(items), [i \in 1..Len(items) |-> parse_usize(items[i]).v]) > Len(ls[2])

(* C27: a pack file that does not decode is reported as an error and never *)
(* aborts the caller: read_keys gives Failed when the file is absent, when  *)
(* its key-length line does not parse and when its key blob is shorter than *)
(* the lengths announce; read_contents gives Failed when the file has fewer *)
(* value lines than keys.                                                   *)
DecodeFailuresAreErrors ==
  /\ pack_io.keys.st \in {"none", "Value", "Failed"}
  /\ pack_io.contents.st \in {"none", "Value", "Failed"}
  /\ (/\ pack_io.keys.st # "none"
      /\ pack_io.pack.path \in DOMAIN pack_io.fs.files
      /\ KeysUndecodable(pack_io.fs.files[pack_io.pack.path])) => pack_io.keys.st = "Failed"

----------------------------------------------------------------------------
(* The two mutexes of PackStorage (storage.rs): which thread holds          *)
(* self.scopes and self.socpe_updates, whether self.scopes is poisoned,     *)
(* where every thread is inside its call and how its last call ended.  A    *)
(* MutexGuard bound to a local lives to the end of the function; a guard    *)
(* that is a temporary of one statement is dropped at its end; a guard      *)
(* dropped while its thread panics poisons the mutex, and lock().unwrap()   *)
(* on a poisoned mutex panics once the mutex has been acquired.             *)

MaxLockCalls == 3      \* calls the threads begin in one behaviour

Free == "free"

(* the positions at which a thread reads files or waits for pack tasks *)
IoPositions == {"get_all:load", "idle:save"}

(* how validate / get_contents and save end: they return or they panic *)
Outcomes == {"returned", "panic"}

InitLocks ==
  /\ StorageAtRest
  /\ expiry = NoExpiry
  /\ pack_io = NoPackIo
  /\ pack_scope = NoPackScope
  /\ snapshot = NoSnapshot
  /\ locks = [scopes |-> Free, socpe_updates |-> Free, poisoned |-> FALSE, calls |-> 0,
              at |-> [t \in Threads |-> "out"], name |-> [t \in Threads |-> ""],
              ended |-> [t \in Threads |-> ""]]

LockOthersUnchanged == UNCHANGED <<storage_vars, expiry, pack_io, pack_scope, snapshot>>

(* the call of the thread ends: it returns or it unwinds *)
CallEnds(l, t, how) == [l EXCEPT !.at[t] = "out", !.name[t] = "", !.ended[t] = how]

(* a thread calls get_all and reaches line 37 *)
LockGetAllEnter(t, name) ==
  /\ locks.at[t] = "out" /\ locks.calls < MaxLockCalls
  /\ locks' = [locks EXCEPT !.calls = @ + 1, !.at[t] = "get_all:lock", !.name[t] = name]
  /\ LockOthersUnchanged

(* get_all, lines 37-44: `let mut scopes = self.scopes.lock().unwrap()`,    *)
(* the entry of the scope, then validate and get_contents read the meta and *)
(* the pack files and wait for the pack tasks; the guard `scopes` is alive  *)
LockGetAllLoad(t) ==
  /\ locks.at[t] = "get_all:lock"
  /\ locks.scopes = Free
  /\ locks' = IF locks.poisoned
              THEN CallEnds(locks, t, "panic")
              ELSE [locks EXCEPT !.scopes = t, !.at[t] = "get_all:load"]
  /\ LockOthersUnchanged

(* the guard of get_all is never dropped *)
LockGetAllReturn_guard_leaked(t) ==
  /\ locks.at[t] = "get_all:load"
  /\ locks' = CallEnds(locks, t, "returned")
  /\ LockOthersUnchanged

(* get_all, line 48: the function returns, or validate / get_contents       *)
(* panicked; either way the guard is dropped                                *)
LockGetAllReturn(t) ==
  /\ locks.at[t] = "get_all:load"
  /\ \E how \in Outcomes :
       locks' = [CallEnds(locks, t, how) EXCEPT !.scopes = Free,
                                                !.poisoned = (how = "panic")]
  /\ LockOthersUnchanged

(* a thread calls set or remove and reaches line 50 or 55 *)
LockStageEnter(t, name) ==
  /\ locks.at[t] = "out" /\ locks.calls < MaxLockCalls
  /\ locks' = [locks EXCEPT !.calls = @ + 1, !.at[t] = "stage:lock", !.name[t] = name]
  /\ LockOthersUnchanged

(* set / remove, lines 50 and 55: `let mut inner = self.socpe_updates.lock()` *)
LockStageLock(t) ==
  /\ locks.at[t] = "stage:lock"
  /\ locks.socpe_updates = Free
  /\ locks' = [locks EXCEPT !.socpe_updates = t, !.at[t] = "stage:insert"]
  /\ LockOthersUnchanged

(* set / remove, lines 51-53 and 56-58: the insert, then the guard is dropped *)
LockStageReturn(t) ==
  /\ locks.at[t] = "stage:insert"
  /\ locks' = [CallEnds(locks, t, "returned") EXCEPT !.socpe_updates = Free]
  /\ LockOthersUnchanged

(* a thread calls idle and reaches line 61 *)
LockIdleEnter(t) ==
  /\ locks.at[t] = "out" /\ locks.calls < MaxLockCalls
  /\ locks' = [locks EXCEPT !.calls = @ + 1, !.at[t] = "idle:lock_updates"]
  /\ LockOthersUnchanged

(* idle, line 61: the staged map is taken under a guard that is a temporary *)
LockIdleTakeUpdates(t) ==
  /\ locks.at[t] = "idle:lock_updates"
  /\ locks.socpe_updates = Free
  /\ locks' = [locks EXCEPT !.at[t] = "idle:lock_scopes"]
  /\ LockOthersUnchanged

(* idle, line 62: the registry is taken under a guard that is a temporary *)
LockIdleTakeScopes(t) ==
  /\ locks.at[t] = "idle:lock_scopes"
  /\ locks.scopes = Free
  /\ locks' = IF locks.poisoned
              THEN CallEnds(locks, t, "panic")
              ELSE [locks EXCEPT !.at[t] = "idle:save"]
  /\ LockOthersUnchanged

(* idle, lines 63-69: save runs on the taken maps and returns or panics;    *)
(* then line 70: the new scopes are swapped in under a guard that is a      *)
(* temporary                                                                *)
LockIdleSwap(t) ==
  /\ locks.at[t] = "idle:save"
  /\ \E how \in Outcomes :
       IF how = "panic"
       THEN locks' = CallEnds(locks, t, "panic")
       ELSE /\ locks.scopes = Free
            /\ locks' = CallEnds(locks, t, IF locks.poisoned THEN "panic" ELSE "returned")
  /\ LockOthersUnchanged

NextLocks ==
  \/ \E t \in Threads, name \in Scopes : LockGetAllEnter(t, name)
  \/ \E t \in Threads : LockGetAllLoad(t)
  \/ \E t \in Threads : LockGetAllReturn(t)
  \/ \E t \in Threads, name \in Scopes : LockStageEnter(t, name)
  \/ \E t \in Threads : LockStageLock(t)
  \/ \E t \in Threads : LockStageReturn(t)
  \/ \E t \in Threads : LockIdleEnter(t)
  \/ \E t \in Threads : LockIdleTakeUpdates(t)
  \/ \E t \in Threads : LockIdleTakeScopes(t)
  \/ \E t \in Threads : LockIdleSwap(t)

SpecLocks == InitLocks /\ [][NextLocks]_vars

(* the steps a thread takes inside a call it has begun *)
LockProgress(t) ==
  \/ LockGetAllLoad(t) \/ LockGetAllReturn(t)
  \/ LockStageLock(t) \/ LockStageReturn(t)
  \/ LockIdleTakeUpdates(t) \/ LockIdleTakeScopes(t) \/ LockIdleSwap(t)

(* fair scheduling: a thread that can take its next step does so; file      *)
(* reads and pack tasks finish                                              *)
SpecLocksFair == SpecLocks /\ \A t \in Threads : WF_vars(LockProgress(t))


(* a thread holds one of the two mutexes *)
HoldsLock(t) == locks.scopes = t \/ locks.socpe_updates = t

(* C28: a lock is held only for the lookup, the insert or the take on the   *)
(* map: no thread holds a mutex while it reads files or waits for pack      *)
(* tasks, so a get_all that is loading leaves the scopes mutex free for an  *)
(* idle and for a get_all of another scope.                                 *)
NoIoUnderLock ==
  \A t \in Threads :
    locks.at[t] \in IoPositions => (~HoldsLock(t) /\ locks.scopes = Free)

----------------------------------------------------------------------------
(* Claims on save_scope over a scope that is not loaded *)

(* what get_contents returns from a scope object that has loaded nothing *)
CommittedContents == ContentsOf(PackScopeNew)

(* C29: the entries committed in the directory survive save_scope however   *)
(* much of the scope was loaded before: when the scope handed to save_scope *)
(* has not loaded its meta, its packs or some pack's keys or contents, the  *)
(* saved scope holds the committed entries without the keys of the update   *)
(* map, plus the inserts, not the inserts alone.                            *)
UnloadedEntriesSurvive ==
  (Saved.some /\ ~SavedFromLoaded /\ CommittedContents.kind = "ok") =>
    /\ Saved.res = "ok"
    /\ ContentsOf(Saved.scope) =
         [kind |-> "ok", entries |-> Applied(CommittedContents.entries, Saved.data)]

----------------------------------------------------------------------------
(* Claims on set and remove running beside idle *)

(* get_all of the scope, once the step is taken, shows the mutation: the    *)
(* inserted pair, or no entry under the removed key                         *)
ShownAfter(s, k, m) ==
  /\ ViewAfter(s).kind = "ok"
  /\ IF m.some
     THEN BagIn(<<k, m.v>>, ViewAfter(s).entries)
     ELSE \A e \in DOMAIN ViewAfter(s).entries : e[1] # k

(* the idle call of a thread returns with this step *)
IdleReturning(t) == (IdleTakeScopes(t) \/ IdleSwap(t)) /\ pc'[t] = "ready"

(* C30: no staged mutation is lost when set and remove run beside idle: an  *)
(* idle takes the whole staged map and leaves it empty, and when it returns *)
(* every mutation it took is applied, unless a later call has staged the    *)
(* key again for the next idle.                                             *)
NoStagedMutationLost ==
  [][\A t \in Threads :
       /\ IdleTakeUpdates(t) => (data'[t] = socpe_updates /\ socpe_updates' = EmptyMap)
       /\ IdleReturning(t) =>
            \A s \in DOMAIN data[t] : \A k \in DOMAIN data[t][s] :
              \/ ShownAfter(s, k, data[t][s][k])
              \/ Staged(socpe_updates', s, k) # <<>>]_vars

----------------------------------------------------------------------------
(* Two threads inside idle() at once: &self is shared and idle takes no     *)
(* lock for the whole call, so the steps of two calls interleave.           *)

NextIdles ==
  \/ \E s \in Scopes : \E k \in KeysOf(s), v \in ValuesOf(s) : Set(s, k, v)
  \/ \E s \in Scopes : \E k \in KeysOf(s) : Remove(s, k)
  \/ \E s \in Scopes : GetAll(s)
  \/ \E t \in Threads : IdleTakeUpdates(t)
  \/ \E t \in Threads : IdleTakeScopes(t)
  \/ \E t \in Threads : IdleSwap(t)

SpecIdles == Init /\ [][NextIdles]_vars

(* another idle call has taken the registry and not yet swapped its result  *)
(* in, and it saved this scope                                              *)
SavedByRunningIdle(t, s) ==
  \E u \in Threads \ {t} : pc[u] = "saved" /\ s \in DOMAIN data[u]

(* C31: two idle calls that run at the same time lose nothing: the call     *)
(* that saves second never saves a scope from the registry the first call   *)
(* emptied, as if the scope had no previous entries; it saves the scope     *)
(* the first call produced.                                                 *)
SecondIdleSavesFromFirst ==
  [][\A t \in Threads :
       (IdleTakeScopes(t) /\ ~poisoned) =>
         \A s \in DOMAIN data[t] :
           SavedByRunningIdle(t, s) =>
             /\ s \in DOMAIN scopes
             /\ WithDataScopes(scopes, data[t])[s] # PackScopeNew]_vars

----------------------------------------------------------------------------
(* Claims on the termination of the calls *)

(* a thread holds the scopes mutex and the scope-updates mutex at once *)
HoldsBothLocks(t) == locks.scopes = t /\ locks.socpe_updates = t

(* a thread is inside a call *)
InCall(t) == locks.at[t] # "out"

====
